---- MODULE Spec2Model ----
(***************************************************************************)
(* Model of the iCloud sync-readiness engine, src/ot/icloud.py.            *)
(*                                                                         *)
(* Time is counted in whole seconds.  The directory tree belongs to the    *)
(* cloud daemon: it changes by environment actions that may fire between   *)
(* any two steps of wait_for_icloud_sync, and while the function sleeps.   *)
(* The function itself is cut at its scans of the tree and at its sleeps,  *)
(* the only points where the tree or the clock can be observed.            *)
(***************************************************************************)
EXTENDS Integers, FiniteSets, Sequences, TLC

(* ------------------------------ bounds -------------------------------- *)

\* Largest max_wait_seconds passed by a caller, the scenario's apart.
MaxWait == 5
\* Largest check_interval passed by a caller.
MaxInterval == 2
\* Largest stability_threshold passed by a caller.
MaxThreshold == 2
\* Longest time the verification retries of one materializer call add to
\* its batch settle sleep.
MaxVerifyLag == 1
\* Largest max_wait_seconds of the calls checked for termination.
LiveMaxWait == 4
\* Largest st_flags, st_blocks and st_size of a stat result.
MaxFlags == 70
MaxBlocks == 1
MaxSize == 1
\* Most calls of is_dataless_file on one path.
MaxCalls == 2
\* Files under the directory a materializer call works on.
MaxTree == 3
\* Largest max_files and batch_size passed by a caller.
MaxFilesArg == 3
MaxBatch == 2
\* Largest max_verify_attempts passed to download_dataless_file.
MaxAttempts == 5
\* Most calls of wait_for_icloud_sync that ended before the one running,
\* and the largest max_wait_seconds of calls made one after another.
MaxEarlier == 1
SeqMaxWait == 2
\* Largest max_wait_seconds of two calls made at the same time.
ConcMaxWait == 2
\* Largest window passed to find_recently_modified_files, and the age in
\* seconds of the oldest file it is called on.
MaxSeconds == 2
MaxAge == 2
\* The seconds of the clock that datetime.now() reads: 0..MaxSecond.
MaxSecond == 1
\* add_sync_schedule is called on a crontab of fewer than MaxLines lines.
MaxLines == 4

(* ------------------------- program constants -------------------------- *)

\* find_recently_modified_files(source_dir, seconds=5)
RecentWindow == 5
\* time.sleep(1): the settle delay before returning True
SettleDelay == 1
\* time.sleep(2.0): the batch settle sleep of _download_batch_brctl
BatchSettle == 2
\* UF_COMPRESSED = 0x20
UF_COMPRESSED == 32
\* The sleeps of the materializer are counted in ticks of 1/80 s, the
\* largest unit in which 0.3 s and 0.5 s x 1.5^k, up to the cap, are whole.
TicksPerSecond == 80
\* max_verify_attempts: int = 3; for _ in range(3)
DefaultAttempts == 3
BatchChecks == 3

(* ------------------------------- names -------------------------------- *)

\* Paths under source_dir: the names matching "*.icloud", and the others.
PlaceholderNames == {"a.icloud"}
RegularNames == {"b.txt"}

\* pattern in file_path.name, for the names above.
NameContains(f, pattern) ==
    CASE pattern = ".icloud" -> f \in PlaceholderNames
      [] pattern = ".txt" -> f \in RegularNames
      [] pattern = ".DS_Store" -> f = ".DS_Store"
      [] OTHER -> FALSE

\* Values a caller may pass: the valid ones and the configuration errors
\* (max_wait_seconds <= 0, check_interval < 0, stability_threshold < 1).
\* check_interval = 0 is left out: with a sleep of length 0 an iteration
\* takes no whole second, and the number of iterations within one second
\* has no bound.  max_wait_seconds = 10 is the deadline of the concrete
\* scenario (pollInterval 1 s, stabilityThreshold 2, maxWaitSeconds 10).
MaxWaitValues == 0..MaxWait \cup {10}
IntervalValues == {-1} \cup 1..MaxInterval
ThresholdValues == 0..MaxThreshold

VARIABLES
    \* the environment
    now,            \* the clock: time.time(), datetime.now()
    rootExists,     \* source_dir exists
    icloud,         \* the *.icloud paths present under source_dir
    evicted,        \* the regular files whose stat says dataless
    mtime,          \* st_mtime of each regular file
    \* the arguments of wait_for_icloud_sync
    max_wait_seconds, check_interval, stability_threshold, download_dataless,
    \* its locals
    pc, start_time, stable_count, dataless_download_attempted,
    \* a sleep in progress: when it ends and where the function goes on
    wakeAt, resume,
    \* what the call returned: "none" while it runs
    result,
    \* history of the call, read by the properties only
    h,
    \* one path classified on its own: what os.stat gives for it now
    st,
    \* history of the calls of is_dataless_file on it: what os.stat gave
    \* at the last call, what the calls returned, and whether os.stat gave
    \* the same at every call
    lastSnap, verdicts, sameSnap,
    \* a call of the materializer on its own: which function was called,
    \* and whether brctl is installed
    entry, brctl,
    \* the arguments of download_dataless_files and download_dataless_file
    max_files, batch_size, use_batch_mode, max_verify_attempts,
    \* its position and locals
    mpc, files_to_download, batch_start, idx, attempt, verify_wait,
    use_brctl, success_count, fail_count,
    \* what it returned, and its history, read by the properties only
    mresult, mh,
    \* the calls of wait_for_icloud_sync that ended before the one that
    \* runs: how each of them ended
    earlier,
    \* a second call of wait_for_icloud_sync, in another thread: its locals
    \* while the thread does not run
    other,
    \* a scanner called on its own: the exclude_patterns and seconds passed
    \* to it, the I/O error that meets its walk, and what the call gave
    exclude_patterns, scan_seconds, faults, returned,
    \* the status file: what STATUS_FILE holds; the last call of
    \* record_sync_result; what load_sync_status returned since
    status_file, recorded, loaded,
    \* the scheduler: sys.platform, the lines of the user's crontab, the
    \* plist file of the agent, whether launchd has the job loaded, and
    \* the last call of the scheduler
    platform, crontab, plist, agent_loaded, sched

vars == <<now, rootExists, icloud, evicted, mtime,
          max_wait_seconds, check_interval, stability_threshold,
          download_dataless, pc, start_time, stable_count,
          dataless_download_attempted, wakeAt, resume, result, h,
          st, lastSnap, verdicts, sameSnap,
          entry, brctl, max_files, batch_size, use_batch_mode,
          max_verify_attempts, mpc, files_to_download, batch_start, idx,
          attempt, verify_wait, use_brctl, success_count, fail_count,
          mresult, mh, earlier, other,
          exclude_patterns, scan_seconds, faults, returned,
          status_file, recorded, loaded,
          platform, crontab, plist, agent_loaded, sched>>

envVars == <<rootExists, icloud, evicted, mtime>>
argVars == <<max_wait_seconds, check_interval, stability_threshold,
             download_dataless>>

statVars == <<st, lastSnap, verdicts, sameSnap>>
matArgs == <<entry, brctl, max_files, batch_size, use_batch_mode,
             max_verify_attempts>>
matLocals == <<mpc, files_to_download, batch_start, idx, attempt,
               verify_wait, use_brctl, success_count, fail_count>>
matVars == <<matArgs, matLocals, mresult, mh>>
callVars == <<earlier, other>>
scanVars == <<exclude_patterns, scan_seconds, faults, returned>>
hostVars == <<status_file, recorded, loaded,
              platform, crontab, plist, agent_loaded, sched>>
otherVars == <<statVars, matVars, callVars, scanVars, hostVars>>

(* --------------------------- is_dataless_file ------------------------- *)

\* a & b on non-negative integers.
RECURSIVE BitAnd(_, _)
BitAnd(a, b) ==
    IF a = 0 \/ b = 0 THEN 0
    ELSE (a % 2) * (b % 2) + 2 * BitAnd(a \div 2, b \div 2)

\* What os.stat(file_path) can give: OSError; a result without the
\* st_flags attribute, whose read raises AttributeError; a result with it.
StatOutcomes ==
    {[raises |-> "OSError", st_flags |-> 0, st_blocks |-> 0, st_size |-> 0]}
    \cup [raises : {"AttributeError"}, st_flags : {0},
          st_blocks : 0..MaxBlocks, st_size : 0..MaxSize]
    \cup [raises : {"none"}, st_flags : 0..MaxFlags,
          st_blocks : 0..MaxBlocks, st_size : 0..MaxSize]

\* The classification without the test of st_size.
is_dataless_stat_any_size(s) ==
    IF s.raises # "none" THEN FALSE
    ELSE LET has_compressed_flag == BitAnd(s.st_flags, UF_COMPRESSED) # 0
             has_no_blocks == s.st_blocks = 0
         IN  has_compressed_flag /\ has_no_blocks

\* The classification without the test of st_blocks.
is_dataless_stat_any_blocks(s) ==
    IF s.raises # "none" THEN FALSE
    ELSE LET has_compressed_flag == BitAnd(s.st_flags, UF_COMPRESSED) # 0
             has_size == s.st_size > 0
         IN  has_compressed_flag /\ has_size

\* Lines 56-68: the body of is_dataless_file on the outcome s of os.stat.
is_dataless_stat(s) ==
    IF s.raises # "none" THEN FALSE
    ELSE LET has_compressed_flag == BitAnd(s.st_flags, UF_COMPRESSED) # 0
             has_no_blocks == s.st_blocks = 0
             has_size == s.st_size > 0
         IN  has_compressed_flag /\ has_no_blocks /\ has_size

\* os.stat of a path of the tree: an evicted file has the flag, a size and
\* no blocks; any other file has blocks and no flag.
os_stat(f) ==
    IF f \in evicted
    THEN [raises |-> "none", st_flags |-> UF_COMPRESSED,
          st_blocks |-> 0, st_size |-> 1]
    ELSE [raises |-> "none", st_flags |-> 0, st_blocks |-> 1, st_size |-> 1]

\* No call of is_dataless_file on the path classified on its own.
NoSnap == [raises |-> "not called", st_flags |-> 0, st_blocks |-> 0,
           st_size |-> 0]
StatIdle ==
    /\ st = [raises |-> "none", st_flags |-> 0, st_blocks |-> 1,
             st_size |-> 1]
    /\ lastSnap = NoSnap /\ verdicts = <<>> /\ sameSnap = TRUE

(* ------------------------ materializer: its state --------------------- *)

\* The files under the directory of a materializer call, in the order
\* rglob yields them.
MatNames == 1..MaxTree

\* History of a materializer call.  probes: the calls of
\* check_brctl_available; settles: the batch settle sleeps; discovered:
\* what find_dataless_files returned; per file, trig: the trigger commands
\* run for it, failed: those of them that did not end with exit status
\* 0, exits: those of them that ended with another exit status (the rest
\* of the failed ones raised), checks: the calls of is_dataless_file that
\* verified it, waits: the sleeps of its verification, in order, out: how
\* it was counted.
mh0 == [probes |-> 0, settles |-> 0, discovered |-> <<>>,
        trig |-> [f \in MatNames |-> 0],
        failed |-> [f \in MatNames |-> 0],
        exits |-> [f \in MatNames |-> 0],
        checks |-> [f \in MatNames |-> 0],
        waits |-> [f \in MatNames |-> <<>>],
        out |-> [f \in MatNames |-> "none"]]

\* No call of the materializer is followed step by step; the arguments
\* are at their defaults.
MatIdle ==
    /\ entry = "none" /\ brctl = TRUE
    /\ max_files = 1000 /\ batch_size = 50 /\ use_batch_mode = TRUE
    /\ max_verify_attempts = DefaultAttempts
    /\ mpc = "idle" /\ files_to_download = <<>> /\ batch_start = 0
    /\ idx = 0 /\ attempt = 0 /\ verify_wait = 0 /\ use_brctl = FALSE
    /\ success_count = 0 /\ fail_count = 0
    /\ mresult = "none" /\ mh = mh0

(* ------------------------------ scanners ------------------------------ *)

\* is_dataless_file: the classification of one stat snapshot.
is_dataless_file(f) == is_dataless_stat(os_stat(f))

\* find_icloud_placeholders: [] if the root is absent, else rglob("*.icloud").
find_icloud_placeholders ==
    IF ~rootExists THEN {} ELSE icloud

\* find_dataless_files: [] if the root is absent, else the files that
\* is_dataless_file classifies as dataless (exclude_patterns: [".DS_Store"]).
find_dataless_files ==
    IF ~rootExists THEN {}
    ELSE {f \in RegularNames \cup icloud :
            ~NameContains(f, ".DS_Store") /\ is_dataless_file(f)}

\* find_recently_modified_files: the files whose name holds no exclude
\* pattern and whose mtime is newer than now - seconds.
CutoffTime(seconds) == now - seconds

\* The window test with >= for >.
find_recently_modified_files_incl(seconds) ==
    IF ~rootExists THEN {}
    ELSE {f \in RegularNames \cup icloud :
            /\ ~NameContains(f, ".icloud")
            /\ ~NameContains(f, ".DS_Store")
            /\ mtime[f] >= CutoffTime(seconds)}

find_recently_modified_files(seconds) ==
    IF ~rootExists THEN {}
    ELSE {f \in RegularNames \cup icloud :
            /\ ~NameContains(f, ".icloud")
            /\ ~NameContains(f, ".DS_Store")
            /\ mtime[f] > CutoffTime(seconds)}

(* ------------------------------- history ------------------------------ *)

\* polls: the poll samples, the iterations that passed the deadline check
\* and ran the scanner; lastPollAt: when the last one started; phPolls:
\* the samples that found a placeholder; phPrefix: no sample without a
\* placeholder came before one with; anyDl, anyNoDl: some dataless scan
\* found a dataless file, found none; anyRecent: some sample found a
\* recently modified file; matCalls: the calls of download_dataless_files;
\* warned: a "could not be downloaded" warning was logged; cleanRun: the
\* samples, since the last one that found a placeholder, materialized or
\* found a recent file, that did none of these; curPh, curDl: the sample
\* in progress found a placeholder, found a dataless file.
h0 == [polls |-> 0, lastPollAt |-> -1, phPolls |-> 0, phPrefix |-> TRUE,
       anyDl |-> FALSE, anyNoDl |-> FALSE, anyRecent |-> FALSE,
       matCalls |-> 0, warned |-> FALSE, cleanRun |-> 0,
       curPh |-> FALSE, curDl |-> FALSE]

\* The history after a dataless scan that returned `found`.
SawDataless(hh, found) ==
    [hh EXCEPT !.anyDl = @ \/ found # {}, !.anyNoDl = @ \/ found = {}]

\* The history after a sample that ended as `how`.
EndSample(hh, how) ==
    [hh EXCEPT !.cleanRun = IF how = "clean" THEN @ + 1 ELSE 0,
               !.curPh = FALSE, !.curDl = FALSE]

\* The locals of a call that has just started, at time 0 (lines 391-393),
\* kept for a thread that does not run; t = 0: there is no second thread.
Frame0(t) ==
    [tid |-> t, pc |-> "top", start_time |-> 0, stable_count |-> 0,
     attempted |-> FALSE, wakeAt |-> 0, resume |-> "top",
     result |-> "none", h |-> h0]

\* One call of wait_for_icloud_sync, the first, in one thread.
NoOtherCall == earlier = <<>> /\ other = Frame0(0)

\* No I/O error; and no scanner called on its own: exclude_patterns=None,
\* seconds at the window the coordinator passes.
NoFault == [kind |-> "none", name |-> "", after |-> 0]
ScanIdle ==
    /\ exclude_patterns = [given |-> FALSE, patterns |-> {}]
    /\ scan_seconds = RecentWindow
    /\ faults = NoFault
    /\ returned = [fn |-> "none", raised |-> FALSE, value |-> {}]

\* Nothing was recorded or loaded, and no scheduler call was made: no
\* status file, an empty crontab, no plist, no job loaded.
HostIdle ==
    /\ status_file = [kind |-> "absent"]
    /\ recorded = [called |-> FALSE]
    /\ loaded = [called |-> FALSE]
    /\ platform = "linux" /\ crontab = <<>>
    /\ plist = [kind |-> "absent"] /\ agent_loaded = FALSE
    /\ sched = [fn |-> "none"]

(* -------------------------------- Init -------------------------------- *)

\* A file older than the window at the start of the call.
OldMtime == 0 - RecentWindow

Init ==
    /\ now = 0
    /\ rootExists \in BOOLEAN
    /\ icloud \in SUBSET PlaceholderNames
    /\ evicted \in SUBSET RegularNames
    /\ mtime \in [RegularNames -> {OldMtime, 0}]
    /\ (~rootExists => icloud = {} /\ evicted = {}
                       /\ mtime = [f \in RegularNames |-> OldMtime])
    /\ max_wait_seconds \in MaxWaitValues
    /\ check_interval \in IntervalValues
    /\ stability_threshold \in ThresholdValues
    /\ download_dataless \in BOOLEAN
    /\ pc = "top"
    /\ start_time = now
    /\ stable_count = 0
    /\ dataless_download_attempted = FALSE
    /\ wakeAt = 0
    /\ resume = "top"
    /\ result = "none"
    /\ h = h0
    /\ StatIdle
    /\ MatIdle
    /\ NoOtherCall
    /\ ScanIdle
    /\ HostIdle

(* ------------------------------- sleeping ----------------------------- *)

\* The clock of the model stops here.  No call runs this long: the last
\* sample starts before max_wait_seconds have elapsed, and lasts at most
\* one materializer call and one sleep.
ClockCap ==
    start_time + max_wait_seconds + BatchSettle + MaxVerifyLag
    + check_interval

\* A sleep that the deadline cuts short: it ends when max_wait_seconds
\* have elapsed, if that is before its own time is over.
SleepUntilDeadline(d, next) ==
    IF d < 0
    THEN /\ pc' = "raised"
         /\ result' = "ValueError"
         /\ UNCHANGED <<wakeAt, resume>>
    ELSE IF d = 0
    THEN /\ pc' = next
         /\ UNCHANGED <<wakeAt, resume, result>>
    ELSE /\ pc' = "sleeping"
         /\ wakeAt' = IF now + d > start_time + max_wait_seconds
                      THEN start_time + max_wait_seconds
                      ELSE now + d
         /\ resume' = next
         /\ UNCHANGED result

\* time.sleep(d), after which the function goes on at `next`: a negative d
\* raises ValueError out of wait_for_icloud_sync.
Sleep(d, next) ==
    IF d < 0
    THEN /\ pc' = "raised"
         /\ result' = "ValueError"
         /\ UNCHANGED <<wakeAt, resume>>
    ELSE IF d = 0
    THEN /\ pc' = next
         /\ UNCHANGED <<wakeAt, resume, result>>
    ELSE /\ pc' = "sleeping"
         /\ wakeAt' = now + d
         /\ resume' = next
         /\ UNCHANGED result

\* One second of a sleep passes; at its end the function goes on.
Tick ==
    /\ pc = "sleeping"
    /\ now < ClockCap
    /\ now' = now + 1
    /\ IF now + 1 >= wakeAt
       THEN pc' = resume /\ wakeAt' = 0 /\ resume' = "top"
       ELSE UNCHANGED <<pc, wakeAt, resume>>
    /\ UNCHANGED <<envVars, argVars, start_time, stable_count,
                   dataless_download_attempted, result, h>>
    /\ UNCHANGED otherVars

(* ------------------------ wait_for_icloud_sync ------------------------ *)

\* The deadline check with > for >=.
DeadlineReachedLate(elapsed) == elapsed > max_wait_seconds

\* The deadline check with start_time taken anew in every iteration: the
\* elapsed time it sees is always 0.
DeadlineReachedFromIteration(elapsed) == elapsed - elapsed >= max_wait_seconds

\* Line 398: if elapsed >= max_wait_seconds
DeadlineReached(elapsed) == elapsed >= max_wait_seconds

\* The materializer guard without the download_dataless switch.
ShouldDownloadUnasked == ~dataless_download_attempted

\* The materializer guard without the attempted flag.
ShouldDownloadAgain == download_dataless

\* Line 419: if download_dataless and not dataless_download_attempted
ShouldDownload == download_dataless /\ ~dataless_download_attempted

\* The threshold test with > for >=.
IsStableLate(count) == count > stability_threshold

\* Line 455: if stable_count >= stability_threshold
IsStable(count) == count >= stability_threshold

\* The counter without its reset in the recent-activity branch.
NextStableNoReset(how) ==
    IF how = "clean" THEN stable_count + 1
    ELSE IF how = "recent" THEN stable_count ELSE 0

\* The counter without its reset in the placeholder branch.
NextStableKeptOnPlaceholder(how) ==
    IF how = "clean" THEN stable_count + 1
    ELSE IF how = "ph" THEN stable_count ELSE 0

\* Lines 412, 427, 448, 453: stable_count after a sample that found a
\* placeholder ("ph"), materialized ("mat"), found a recent file ("recent")
\* or did none of these ("clean").
NextStable(how) == IF how = "clean" THEN stable_count + 1 ELSE 0

\* Lines 395-414: the deadline check, then the placeholder scan.
Iterate ==
    /\ pc = "top"
    /\ LET elapsed == now - start_time IN
       IF DeadlineReached(elapsed)
       THEN /\ pc' = "returned"
            /\ result' = "False"
            /\ UNCHANGED <<stable_count, wakeAt, resume, h>>
       ELSE LET placeholders == find_icloud_placeholders
                hh == [h EXCEPT !.polls = @ + 1, !.lastPollAt = now,
                                !.curPh = placeholders # {},
                                !.curDl = FALSE]
            IN  IF placeholders # {}
                THEN /\ stable_count' = NextStable("ph")
                     /\ Sleep(check_interval, "top")
                     /\ h' = EndSample(
                               [hh EXCEPT !.phPolls = @ + 1,
                                          !.phPrefix =
                                              @ /\ (h.phPolls = h.polls)],
                               "ph")
                ELSE /\ pc' = "find_dataless"
                     /\ h' = hh
                     /\ UNCHANGED <<stable_count, wakeAt, resume, result>>
    /\ UNCHANGED <<now, envVars, argVars, start_time,
                   dataless_download_attempted>>
    /\ UNCHANGED otherVars

\* Lines 416-419, 430: the dataless scan and the choice of the branch.
ScanDataless ==
    /\ pc = "find_dataless"
    /\ LET dataless_files == find_dataless_files IN
       /\ h' = [SawDataless(h, dataless_files) EXCEPT
                   !.curDl = dataless_files # {}]
       /\ pc' = IF dataless_files = {} THEN "find_recent"
                ELSE IF ShouldDownload
                THEN "download"
                ELSE "remaining"
    /\ UNCHANGED <<now, envVars, argVars, start_time, stable_count,
                   dataless_download_attempted, wakeAt, resume, result>>
    /\ UNCHANGED otherVars

\* How long a call of download_dataless_files that found files may take, in
\* whole seconds: in batch mode the batch settle sleep and then the
\* verification retries (lines 275-286); in single-file mode the
\* verification waits of each file, from half a second (lines 152-157).
DownloadTimes == 0..(BatchSettle + MaxVerifyLag)

\* Line 425, lines 190-234: download_dataless_files scans again; with
\* nothing to download it returns at once, otherwise it returns after its
\* sleeps.
Download ==
    /\ pc = "download"
    /\ h' = SawDataless([h EXCEPT !.matCalls = @ + 1], find_dataless_files)
    /\ IF find_dataless_files = {}
       THEN /\ pc' = "downloaded"
            /\ UNCHANGED <<wakeAt, resume>>
       ELSE \E d \in DownloadTimes :
              IF d = 0
              THEN pc' = "downloaded" /\ UNCHANGED <<wakeAt, resume>>
              ELSE /\ pc' = "sleeping"
                   /\ wakeAt' = now + d
                   /\ resume' = "downloaded"
    /\ UNCHANGED <<now, envVars, argVars, start_time, stable_count,
                   dataless_download_attempted, result>>
    /\ UNCHANGED otherVars

\* Lines 426-429: after the materializer returned.
Downloaded ==
    /\ pc = "downloaded"
    /\ dataless_download_attempted' = TRUE
    /\ stable_count' = NextStable("mat")
    /\ Sleep(check_interval, "top")
    /\ h' = EndSample(h, "mat")
    /\ UNCHANGED <<now, envVars, argVars, start_time>>
    /\ UNCHANGED otherVars

\* Lines 432-439: the download was attempted or is disabled; warn about
\* what is still dataless and fall through to the stability check.
CheckRemaining ==
    /\ pc = "remaining"
    /\ LET remaining == find_dataless_files IN
       h' = [SawDataless(h, remaining) EXCEPT
                !.warned = @ \/ remaining # {}]
    /\ pc' = "find_recent"
    /\ UNCHANGED <<now, envVars, argVars, start_time, stable_count,
                   dataless_download_attempted, wakeAt, resume, result>>
    /\ UNCHANGED otherVars

\* Lines 442-462: the stability check.
CheckRecent ==
    /\ pc = "find_recent"
    /\ LET recent_files == find_recently_modified_files(RecentWindow)
       IN  IF recent_files # {}
           THEN /\ stable_count' = NextStable("recent")
                /\ Sleep(check_interval, "top")
                /\ h' = EndSample([h EXCEPT !.anyRecent = TRUE], "recent")
           ELSE /\ stable_count' = NextStable("clean")
                /\ IF IsStable(NextStable("clean"))
                   THEN Sleep(SettleDelay, "ready")
                   ELSE Sleep(check_interval, "top")
                /\ h' = EndSample(h, "clean")
    /\ UNCHANGED <<now, envVars, argVars, start_time,
                   dataless_download_attempted>>
    /\ UNCHANGED otherVars

\* Line 460: return True.
Ready ==
    /\ pc = "ready"
    /\ pc' = "returned"
    /\ result' = "True"
    /\ UNCHANGED <<now, envVars, argVars, start_time, stable_count,
                   dataless_download_attempted, wakeAt, resume, h>>
    /\ UNCHANGED otherVars

Running == pc \notin {"returned", "raised"}

(* ----------------------------- environment ---------------------------- *)

progVars == <<now, argVars, pc, start_time, stable_count,
              dataless_download_attempted, wakeAt, resume, result, h>>

\* The daemon leaves a placeholder for content not yet downloaded.
AddPlaceholder ==
    /\ Running /\ rootExists
    /\ \E f \in PlaceholderNames \ icloud : icloud' = icloud \cup {f}
    /\ UNCHANGED <<rootExists, evicted, mtime, progVars>>
    /\ UNCHANGED otherVars

\* The daemon replaces a placeholder by the downloaded file.
RemovePlaceholder ==
    /\ Running /\ rootExists
    /\ \E f \in icloud : icloud' = icloud \ {f}
    /\ UNCHANGED <<rootExists, evicted, mtime, progVars>>
    /\ UNCHANGED otherVars

\* The daemon evicts the content of a file: it becomes dataless.
Evict ==
    /\ Running /\ rootExists
    /\ \E f \in RegularNames \ evicted : evicted' = evicted \cup {f}
    /\ UNCHANGED <<rootExists, icloud, mtime, progVars>>
    /\ UNCHANGED otherVars

\* The content of a dataless file arrives: it becomes resident.
Materialize ==
    /\ Running /\ rootExists
    /\ \E f \in evicted : evicted' = evicted \ {f}
    /\ UNCHANGED <<rootExists, icloud, mtime, progVars>>
    /\ UNCHANGED otherVars

\* A writer modifies a file.
Touch ==
    /\ Running /\ rootExists
    /\ \E f \in RegularNames :
         /\ mtime[f] # now
         /\ mtime' = [mtime EXCEPT ![f] = now]
    /\ UNCHANGED <<rootExists, icloud, evicted, progVars>>
    /\ UNCHANGED otherVars

Env == AddPlaceholder \/ RemovePlaceholder \/ Evict \/ Materialize \/ Touch

Prog == Iterate \/ ScanDataless \/ Download \/ Downloaded \/ CheckRemaining
        \/ CheckRecent \/ Ready \/ Tick

Next == Prog \/ Env

Spec == Init /\ [][Next]_vars

\* The calling thread keeps running: a step of the function that can be
\* taken, the end of a sleep included, is taken.  Nothing is assumed of
\* the environment.
InitLive == Init /\ max_wait_seconds <= LiveMaxWait

LiveSpec == InitLive /\ [][Next]_vars /\ WF_vars(Prog)

(* ---------------------- is_dataless_file on its own -------------------- *)

mainVars == <<envVars, progVars, callVars, scanVars, hostVars>>

\* No call of wait_for_icloud_sync is running; its arguments are at their
\* defaults.
MainIdle ==
    /\ now = 0 /\ rootExists = TRUE /\ icloud = {} /\ evicted = {}
    /\ mtime = [f \in RegularNames |-> OldMtime]
    /\ max_wait_seconds = 60 /\ check_interval = 2
    /\ stability_threshold = 2 /\ download_dataless = TRUE
    /\ pc = "idle" /\ start_time = 0 /\ stable_count = 0
    /\ dataless_download_attempted = FALSE
    /\ wakeAt = 0 /\ resume = "top" /\ result = "none" /\ h = h0

\* A call of is_dataless_file(file_path): one os.stat, then the verdict.
Classify ==
    /\ pc = "idle" /\ Len(verdicts) < MaxCalls
    /\ verdicts' = Append(verdicts, is_dataless_stat(st))
    /\ lastSnap' = st
    /\ sameSnap' = (sameSnap /\ (verdicts = <<>> \/ lastSnap = st))
    /\ UNCHANGED <<st, mainVars, matVars>>

\* The flags of st_flags up to MaxFlags.
FlagBits == {1, 2, 4, 8, 16, 32, 64}

\* The daemon, a writer or the file system changes what os.stat gives:
\* it starts or stops raising, one flag is set or cleared, or the blocks
\* or the size change.
ChangeStat ==
    /\ pc = "idle" /\ Len(verdicts) < MaxCalls
    /\ \/ \E s \in StatOutcomes : s.raises # st.raises /\ st' = s
       \/ /\ st.raises = "none"
          /\ \E b \in FlagBits :
                LET flags == IF BitAnd(st.st_flags, b) # 0
                             THEN st.st_flags - b ELSE st.st_flags + b
                IN  flags <= MaxFlags /\ st' = [st EXCEPT !.st_flags = flags]
       \/ /\ st.raises # "OSError"
          /\ \E n \in 0..MaxBlocks \ {st.st_blocks} :
                st' = [st EXCEPT !.st_blocks = n]
       \/ /\ st.raises # "OSError"
          /\ \E n \in 0..MaxSize \ {st.st_size} :
                st' = [st EXCEPT !.st_size = n]
    /\ UNCHANGED <<lastSnap, verdicts, sameSnap, mainVars, matVars>>

StatInit ==
    /\ MainIdle
    /\ st \in StatOutcomes
    /\ lastSnap = NoSnap /\ verdicts = <<>> /\ sameSnap = TRUE
    /\ MatIdle
    /\ NoOtherCall
    /\ ScanIdle
    /\ HostIdle

StatNext == Classify \/ ChangeStat

StatSpec == StatInit /\ [][StatNext]_vars

(* --------------------------- the materializer ------------------------- *)

Min(a, b) == IF a < b THEN a ELSE b
Max(a, b) == IF a > b THEN a ELSE b

\* The names of S in the order rglob yields them.
RECURSIVE ListOf(_)
ListOf(S) ==
    IF S = {} THEN <<>>
    ELSE LET m == CHOOSE x \in S : \A y \in S : x <= y
         IN  <<m>> \o ListOf(S \ {m})

\* find_dataless_files(directory), as the list download_dataless_files
\* reads.
find_dataless_list ==
    IF ~rootExists THEN <<>>
    ELSE ListOf({f \in MatNames : is_dataless_file(f)})

\* The slice that keeps every file.
SliceAll(s, n) == s

\* Line 196: dataless_files[:max_files], a Python slice: a negative
\* max_files counts from the end.
Slice(s, n) ==
    IF n >= 0 THEN SubSeq(s, 1, Min(n, Len(s)))
    ELSE SubSeq(s, 1, Max(Len(s) + n, 0))

\* The sleeps, in ticks: time.sleep(2.0), time.sleep(0.3),
\* verify_wait = 0.5, min(verify_wait * 1.5, 2.0).
SettleTicks == BatchSettle * TicksPerSecond
RecheckTicks == (3 * TicksPerSecond) \div 10
FirstVerifyWait == TicksPerSecond \div 2
VerifyWaitCap == 2 * TicksPerSecond

\* The next wait without the increase.
NextVerifyWaitFlat(w) == w

\* Line 157: verify_wait = min(verify_wait * 1.5, 2.0)
NextVerifyWait(w) == Min((w * 3) \div 2, VerifyWaitCap)

\* What check_brctl_available can return: False when brctl is missing,
\* and when `which` times out or cannot be started.
ProbeResults == IF brctl THEN {TRUE, FALSE} ELSE {FALSE}

\* How a trigger command can end: exit status 0, another exit status, or
\* subprocess.run raising.
TriggerOutcomes == {"ok", "nonzero", "TimeoutExpired", "OSError"}

\* subprocess.run with check=True: another exit status than 0 raises too.
RaisesOnExit(o) == o # "ok"

\* What subprocess.run raises: TimeoutExpired, and OSError when the
\* command cannot be started; an exit status raises nothing.
Raises(o) == o \in {"TimeoutExpired", "OSError"}

\* The history after a trigger command for f that ended as o.
Triggered(hh, f, o) ==
    [hh EXCEPT !.trig[f] = @ + 1,
               !.failed[f] = IF o = "ok" THEN @ ELSE @ + 1,
               !.exits[f] = IF o = "nonzero" THEN @ + 1 ELSE @]

\* The history after a check of f that followed a sleep of w ticks
\* (w = 0: no sleep) or that a sleep of w ticks follows.
Checked(hh, f, w) ==
    [hh EXCEPT !.checks[f] = @ + 1,
               !.waits[f] = IF w = 0 THEN @ ELSE Append(@, w)]

MatRunning == mpc \notin {"idle", "m_done", "m_raised"}

\* Lines 257-259: the batch at batch_start.
BatchEnd == Min(batch_start + batch_size, Len(files_to_download))
Batch == SubSeq(files_to_download, batch_start + 1, BatchEnd)

\* The single-file loop that stops at the first file.
SingleAtStop(i) == "m_finish"

\* Where the single-file loop goes on at index i.
SingleAt(i) == IF i > Len(files_to_download) THEN "m_finish" ELSE "s_probe"

\* Lines 190-207: the scan, the early return, the slice and the choice
\* of the mode.
MatStart ==
    /\ mpc = "m_start"
    /\ LET dataless_files == find_dataless_list IN
       /\ mh' = [mh EXCEPT !.discovered = dataless_files]
       /\ IF dataless_files = <<>>
          THEN /\ mresult' = <<0, 0>>
               /\ mpc' = "m_done"
               /\ UNCHANGED <<files_to_download, idx>>
          ELSE /\ files_to_download' = Slice(dataless_files, max_files)
               /\ idx' = 1
               /\ mpc' = IF use_batch_mode THEN "m_probe"
                         ELSE IF Slice(dataless_files, max_files) = <<>>
                         THEN "m_finish" ELSE "s_probe"
               /\ UNCHANGED mresult
    /\ UNCHANGED <<matArgs, batch_start, attempt, verify_wait, use_brctl,
                   success_count, fail_count, mainVars, statVars>>

\* Line 207: use_batch_mode and check_brctl_available().
MatProbe ==
    /\ mpc = "m_probe"
    /\ \E r \in ProbeResults :
         mpc' = IF r THEN "b_batch" ELSE SingleAt(1)
    /\ mh' = [mh EXCEPT !.probes = @ + 1]
    /\ batch_start' = 0
    /\ UNCHANGED <<matArgs, files_to_download, idx, attempt, verify_wait,
                   use_brctl, success_count, fail_count, mresult,
                   mainVars, statVars>>

\* Lines 257-261: for batch_start in range(0, total, batch_size); range
\* raises ValueError for a step of 0 and is empty for a negative one.
BatchNext ==
    /\ mpc = "b_batch"
    /\ IF batch_size = 0
       THEN mpc' = "m_raised" /\ mresult' = "ValueError"
       ELSE /\ mpc' = IF batch_size > 0
                          /\ batch_start < Len(files_to_download)
                       THEN "b_trigger" ELSE "m_finish"
            /\ UNCHANGED mresult
    /\ idx' = 1
    /\ UNCHANGED <<matArgs, files_to_download, batch_start, attempt,
                   verify_wait, use_brctl, success_count, fail_count, mh,
                   mainVars, statVars>>

\* The trigger loop that sleeps after every trigger.
AfterTriggerSettleEach == "b_settle"

\* Lines 264-275: after a trigger, the next file of the batch or, after
\* the last, the settle sleep.
AfterTrigger == IF idx < Len(Batch) THEN "b_trigger" ELSE "b_settle"

\* Lines 264-272: brctl download for one file of the batch; whatever
\* subprocess.run raises is passed over.
BatchTrigger ==
    /\ mpc = "b_trigger"
    /\ \E o \in TriggerOutcomes : mh' = Triggered(mh, Batch[idx], o)
    /\ mpc' = AfterTrigger
    /\ idx' = IF AfterTrigger = "b_trigger" THEN idx + 1 ELSE idx
    /\ UNCHANGED <<matArgs, files_to_download, batch_start, attempt,
                   verify_wait, use_brctl, success_count, fail_count,
                   mresult, mainVars, statVars>>

\* Line 275: time.sleep(2.0).
BatchSettleSleep ==
    /\ mpc = "b_settle"
    /\ mh' = [mh EXCEPT !.settles = @ + 1]
    /\ mpc' = "b_verify"
    /\ idx' = 1
    /\ attempt' = 0
    /\ UNCHANGED <<matArgs, files_to_download, batch_start, verify_wait,
                   use_brctl, success_count, fail_count, mresult,
                   mainVars, statVars>>

\* Lines 278-286: one check of one file of the batch, and the sleep after
\* a check that found it dataless; the file fails after the third.
BatchVerify ==
    /\ mpc = "b_verify"
    /\ LET f == Batch[idx]
           ok == ~is_dataless_file(f)
           done == ok \/ attempt + 1 >= BatchChecks
       IN  /\ mh' = [Checked(mh, f, IF ok THEN 0 ELSE RecheckTicks) EXCEPT
                        !.out[f] = IF ok THEN "ok"
                                   ELSE IF done THEN "failed" ELSE @]
           /\ success_count' = IF ok THEN success_count + 1
                                ELSE success_count
           /\ fail_count' = IF ~ok /\ done THEN fail_count + 1
                             ELSE fail_count
           /\ attempt' = IF done THEN 0 ELSE attempt + 1
           /\ IF ~done
              THEN UNCHANGED <<mpc, idx, batch_start>>
              ELSE IF idx < Len(Batch)
              THEN idx' = idx + 1 /\ UNCHANGED <<mpc, batch_start>>
              ELSE /\ mpc' = "b_batch"
                   /\ batch_start' = batch_start + batch_size
                   /\ idx' = 1
    /\ UNCHANGED <<matArgs, files_to_download, verify_wait, use_brctl,
                   mresult, mainVars, statVars>>

\* Line 133: use_brctl = check_brctl_available().
SingleProbe ==
    /\ mpc = "s_probe"
    /\ \E r \in ProbeResults : use_brctl' = r
    /\ mh' = [mh EXCEPT !.probes = @ + 1]
    /\ mpc' = "s_trigger"
    /\ UNCHANGED <<matArgs, files_to_download, batch_start, idx, attempt,
                   verify_wait, success_count, fail_count, mresult,
                   mainVars, statVars>>

\* Lines 135-149, 162-163: brctl download, or cat; when subprocess.run
\* raises, download_dataless_file returns False.
SingleTrigger ==
    /\ mpc = "s_trigger"
    /\ LET f == files_to_download[idx] IN
       \E o \in TriggerOutcomes :
          IF Raises(o)
          THEN /\ mh' = [Triggered(mh, f, o) EXCEPT !.out[f] = "failed"]
               /\ fail_count' = fail_count + 1
               /\ idx' = idx + 1
               /\ mpc' = SingleAt(idx + 1)
               /\ UNCHANGED <<attempt, verify_wait>>
          ELSE /\ mh' = Triggered(mh, f, o)
               /\ mpc' = "s_verify"
               /\ attempt' = 0
               /\ verify_wait' = FirstVerifyWait
               /\ UNCHANGED <<fail_count, idx>>
    /\ UNCHANGED <<matArgs, files_to_download, batch_start, use_brctl,
                   success_count, mresult, mainVars, statVars>>

\* Lines 152-160: time.sleep(verify_wait) and a check, max_verify_attempts
\* times, then the final check.
SingleVerify ==
    /\ mpc = "s_verify"
    /\ LET f == files_to_download[idx]
           final == attempt >= max_verify_attempts
           ok == ~is_dataless_file(f)
           done == ok \/ final
       IN  /\ mh' = [Checked(mh, f, IF final THEN 0 ELSE verify_wait) EXCEPT
                        !.out[f] = IF ok THEN "ok"
                                   ELSE IF final THEN "failed" ELSE @]
           /\ success_count' = IF ok THEN success_count + 1
                                ELSE success_count
           /\ fail_count' = IF ~ok /\ final THEN fail_count + 1
                             ELSE fail_count
           /\ IF done
              THEN /\ idx' = idx + 1
                   /\ mpc' = SingleAt(idx + 1)
                   /\ UNCHANGED <<attempt, verify_wait>>
              ELSE /\ attempt' = attempt + 1
                   /\ verify_wait' = NextVerifyWait(verify_wait)
                   /\ UNCHANGED <<idx, mpc>>
    /\ UNCHANGED <<matArgs, files_to_download, batch_start, use_brctl,
                   mresult, mainVars, statVars>>

\* Lines 229-234: return (success_count, fail_count).
MatFinish ==
    /\ mpc = "m_finish"
    /\ mresult' = <<success_count, fail_count>>
    /\ mpc' = "m_done"
    /\ UNCHANGED <<matArgs, files_to_download, batch_start, idx, attempt,
                   verify_wait, use_brctl, success_count, fail_count, mh,
                   mainVars, statVars>>

\* The content of a dataless file arrives while the materializer runs.
\* Evictions during the call are left out: the materializer reads a file
\* no more after the check that found it resident, so an eviction shows
\* it nothing that a later arrival, or none, does not show.
Arrive ==
    /\ MatRunning
    /\ \E f \in evicted : evicted' = evicted \ {f}
    /\ UNCHANGED <<rootExists, icloud, mtime, progVars, statVars, matVars,
                   callVars, scanVars, hostVars>>

\* The values a caller may pass: max_files and batch_size from -1, and
\* max_verify_attempts from 0.
MaxFilesValues == -1..MaxFilesArg
BatchSizeValues == -1..MaxBatch
AttemptsValues == 0..MaxAttempts

\* A call of download_dataless_files(directory, max_files, ...,
\* use_batch_mode, batch_size), or a call of download_dataless_file on one
\* path with max_verify_attempts, about to start.
MatInit ==
    /\ now = 0 /\ icloud = {}
    /\ mtime = [f \in RegularNames |-> OldMtime]
    /\ max_wait_seconds = 60 /\ check_interval = 2
    /\ stability_threshold = 2 /\ download_dataless = TRUE
    /\ pc = "idle" /\ start_time = 0 /\ stable_count = 0
    /\ dataless_download_attempted = FALSE
    /\ wakeAt = 0 /\ resume = "top" /\ result = "none" /\ h = h0
    /\ StatIdle
    /\ rootExists \in BOOLEAN
    /\ evicted \in SUBSET MatNames
    /\ ~rootExists => evicted = {}
    /\ brctl \in BOOLEAN
    /\ entry \in {"download_dataless_files", "download_dataless_file"}
    /\ IF entry = "download_dataless_files"
       THEN /\ max_files \in MaxFilesValues
            /\ use_batch_mode \in BOOLEAN
            /\ batch_size \in BatchSizeValues
            /\ ~use_batch_mode => batch_size = 50
            /\ max_verify_attempts = DefaultAttempts
            /\ mpc = "m_start"
            /\ files_to_download = <<>>
            /\ idx = 0
       ELSE /\ max_files = 1000 /\ batch_size = 50 /\ use_batch_mode = TRUE
            /\ max_verify_attempts \in AttemptsValues
            /\ mpc = "s_probe"
            /\ rootExists
            /\ \E f \in MatNames : files_to_download = <<f>>
            /\ idx = 1
    /\ batch_start = 0 /\ attempt = 0 /\ verify_wait = 0
    /\ use_brctl = FALSE /\ success_count = 0 /\ fail_count = 0
    /\ mresult = "none" /\ mh = mh0
    /\ NoOtherCall
    /\ ScanIdle
    /\ HostIdle

MatProg == MatStart \/ MatProbe \/ BatchNext \/ BatchTrigger
           \/ BatchSettleSleep \/ BatchVerify \/ SingleProbe
           \/ SingleTrigger \/ SingleVerify \/ MatFinish

MatNext == MatProg \/ Arrive

MatSpec == MatInit /\ [][MatNext]_vars

(* --------------------- one call after another ------------------------- *)

\* How the running call ended: what it returned, and whether it had
\* called the materializer.
Ended ==
    [result |-> result, attempted |-> dataless_download_attempted]

\* A time t read on the clock that starts with the next call: the
\* function reads differences of times only, and a file older than the
\* window stays so.
Rebased(t) == IF t - now > OldMtime THEN t - now ELSE OldMtime

\* The counter of a call that goes on from where the call before left it.
RetainedStableCount == stable_count

\* Line 392: stable_count = 0
FreshStableCount == 0

\* Lines 386-393: the call has ended and the caller calls
\* wait_for_icloud_sync again, with the same arguments: start_time,
\* stable_count and dataless_download_attempted are locals, set anew.
\* Times are counted from the start of the new call.
CallAgain ==
    /\ pc \in {"returned", "raised"}
    /\ Len(earlier) < MaxEarlier
    /\ earlier' = Append(earlier, Ended)
    /\ now' = 0
    /\ mtime' = [f \in RegularNames |-> Rebased(mtime[f])]
    /\ start_time' = now'
    /\ stable_count' = FreshStableCount
    /\ dataless_download_attempted' = FALSE
    /\ pc' = "top" /\ wakeAt' = 0 /\ resume' = "top"
    /\ result' = "none" /\ h' = h0
    /\ UNCHANGED <<rootExists, icloud, evicted, argVars, statVars, matVars,
                   other, scanVars, hostVars>>

SeqInit == Init /\ max_wait_seconds <= SeqMaxWait

SeqNext == Next \/ CallAgain

SeqSpec == SeqInit /\ [][SeqNext]_vars

(* ------------------------ two calls at a time ------------------------- *)

\* Of the history of a call, what is kept while its thread does not run:
\* its samples, its clean samples in a row and its materializer calls.
Kept(hh) ==
    [h0 EXCEPT !.polls = hh.polls, !.cleanRun = hh.cleanRun,
               !.matCalls = hh.matCalls]

\* The locals of the call of the thread that runs, and what it returned.
Frame ==
    [tid |-> other.tid, pc |-> pc, start_time |-> start_time,
     stable_count |-> stable_count,
     attempted |-> dataless_download_attempted, wakeAt |-> wakeAt,
     resume |-> resume, result |-> result, h |-> Kept(h)]

\* One counter for both calls: a thread goes on with the counter as the
\* other thread left it.
SharedCount(frame) == stable_count

\* Line 392: stable_count is a local: a thread goes on with the counter of
\* its own call.
OwnCount(frame) == frame.stable_count

\* The scheduler lets the other thread run, unless its call has ended:
\* the call goes on with its own locals, and the locals of the call that
\* ran are kept for its turn.
Switch ==
    /\ other.tid # 0
    /\ other.pc \notin {"returned", "raised"}
    /\ other' = Frame
    /\ pc' = other.pc
    /\ start_time' = other.start_time
    /\ stable_count' = OwnCount(other)
    /\ dataless_download_attempted' = other.attempted
    /\ wakeAt' = other.wakeAt
    /\ resume' = other.resume
    /\ result' = other.result
    /\ h' = other.h
    /\ UNCHANGED <<now, envVars, argVars, statVars, matVars, earlier,
                   scanVars, hostVars>>

\* The sleep of the thread ended while the other thread ran.
Wake ==
    /\ other.tid # 0
    /\ pc = "sleeping" /\ now >= wakeAt
    /\ pc' = resume /\ wakeAt' = 0 /\ resume' = "top"
    /\ UNCHANGED <<now, envVars, argVars, start_time, stable_count,
                   dataless_download_attempted, result, h, otherVars>>

\* Two threads call wait_for_icloud_sync on the same tree at time 0, with
\* the same arguments: a poll interval of one second, the largest
\* threshold, and a deadline that leaves time for that many samples.
ConcInit ==
    /\ now = 0
    /\ rootExists = TRUE
    /\ icloud \in SUBSET PlaceholderNames
    /\ evicted \in SUBSET RegularNames
    /\ mtime \in [RegularNames -> {OldMtime, 0}]
    /\ max_wait_seconds = ConcMaxWait
    /\ check_interval = 1
    /\ stability_threshold = MaxThreshold
    /\ download_dataless = TRUE
    /\ pc = "top" /\ start_time = now /\ stable_count = 0
    /\ dataless_download_attempted = FALSE
    /\ wakeAt = 0 /\ resume = "top" /\ result = "none" /\ h = h0
    /\ StatIdle /\ MatIdle
    /\ earlier = <<>>
    /\ other = Frame0(1)
    /\ ScanIdle
    /\ HostIdle

ConcNext == Next \/ Switch \/ Wake

ConcSpec == ConcInit /\ [][ConcNext]_vars

(* ----------------------- the scanners on their own -------------------- *)

\* The names a tree may hold, in the order rglob yields them.
RglobOrder == <<".DS_Store", "a.icloud", "b.txt">>
ScanNames == {RglobOrder[i] : i \in 1..Len(RglobOrder)}

\* What directory.rglob("*") yields when nothing fails: .DS_Store and the
\* regular files, and a placeholder while the daemon leaves it there.
Entries ==
    SelectSeq(RglobOrder,
              LAMBDA f : f \in RegularNames \cup icloud \cup {".DS_Store"})
TreeFiles == {Entries[i] : i \in 1..Len(Entries)}

\* The I/O error that meets a scan is none, or one of: rglob raises
\* OSError when asked for the entry after the first `after` (a directory
\* was removed or cannot be read); is_file raises PermissionError for the
\* entry `name`; stat raises OSError for the entry `name` (it was removed
\* after is_file).
WalkRaises == faults.kind = "walk" /\ faults.after < Len(Entries)
Walked == IF WalkRaises THEN SubSeq(Entries, 1, faults.after) ELSE Entries

\* Lines 89, 328: exclude_patterns = exclude_patterns or default; None
\* and the empty list both give the default.
EffectivePatterns(default) ==
    IF exclude_patterns.given /\ exclude_patterns.patterns # {}
    THEN exclude_patterns.patterns
    ELSE default

\* Lines 102, 342: any(pattern in file_path.name for pattern in ...)
Excluded(f, pats) == \E pattern \in pats : NameContains(f, pattern)

\* Lines 96-108: the loop of find_dataless_files over the entries left;
\* an OSError out of is_file ends it, and is_dataless_file answers False
\* for an entry whose stat raises.
RECURSIVE DatalessLoop(_, _)
DatalessLoop(entries, pats) ==
    IF entries = <<>> THEN {}
    ELSE LET file_path == Head(entries) IN
         IF faults.kind = "is_file" /\ faults.name = file_path THEN {}
         ELSE (IF /\ ~Excluded(file_path, pats)
                  /\ ~(faults.kind = "stat" /\ faults.name = file_path)
                  /\ is_dataless_file(file_path)
               THEN {file_path} ELSE {})
              \cup DatalessLoop(Tail(entries), pats)

\* Lines 336-354: the loop of find_recently_modified_files; an entry whose
\* stat raises is skipped, an OSError out of is_file ends the loop.
RECURSIVE RecentLoop(_, _)
RecentLoop(entries, pats) ==
    IF entries = <<>> THEN {}
    ELSE LET file_path == Head(entries) IN
         IF faults.kind = "is_file" /\ faults.name = file_path THEN {}
         ELSE (IF /\ ~Excluded(file_path, pats)
                  /\ ~(faults.kind = "stat" /\ faults.name = file_path)
                  /\ mtime[file_path] > CutoffTime(scan_seconds)
               THEN {file_path} ELSE {})
              \cup RecentLoop(Tail(entries), pats)

\* The variables a call of a scanner leaves alone.
scanFrame == <<envVars, progVars, callVars, statVars, matVars,
               exclude_patterns, scan_seconds, faults, hostVars>>

\* Lines 304-309: find_icloud_placeholders(directory); it takes no
\* exclude_patterns, and nothing catches what rglob raises.
CallFindPlaceholders ==
    /\ pc = "idle"
    /\ returned' =
          [fn |-> "find_icloud_placeholders",
           raised |-> rootExists /\ WalkRaises,
           value |-> IF ~rootExists \/ WalkRaises THEN {}
                     ELSE {f \in TreeFiles : NameContains(f, ".icloud")}]
    /\ UNCHANGED scanFrame

\* Lines 88-110: find_dataless_files(directory, exclude_patterns); what
\* rglob raises ends the loop, and the files found so far are returned.
CallFindDataless ==
    /\ pc = "idle"
    /\ returned' =
          [fn |-> "find_dataless_files", raised |-> FALSE,
           value |-> IF ~rootExists THEN {}
                     ELSE DatalessLoop(Walked,
                                       EffectivePatterns({".DS_Store"}))]
    /\ UNCHANGED scanFrame

\* Lines 327-356: find_recently_modified_files(directory, seconds,
\* exclude_patterns).
CallFindRecent ==
    /\ pc = "idle"
    /\ returned' =
          [fn |-> "find_recently_modified_files", raised |-> FALSE,
           value |-> IF ~rootExists THEN {}
                     ELSE RecentLoop(Walked,
                            EffectivePatterns({".icloud", ".DS_Store"}))]
    /\ UNCHANGED scanFrame

\* A scanner is about to be called on a tree, with the clock at 0:
\* exclude_patterns is None or a list, seconds a window, and at most one
\* I/O error meets the scan.
ScanInit ==
    /\ now = 0
    /\ rootExists \in BOOLEAN
    /\ icloud \in SUBSET PlaceholderNames
    /\ evicted \in SUBSET ScanNames
    /\ mtime \in [ScanNames -> (0 - MaxAge)..0]
    /\ max_wait_seconds = 60 /\ check_interval = 2
    /\ stability_threshold = 2 /\ download_dataless = TRUE
    /\ pc = "idle" /\ start_time = 0 /\ stable_count = 0
    /\ dataless_download_attempted = FALSE
    /\ wakeAt = 0 /\ resume = "top" /\ result = "none" /\ h = h0
    /\ StatIdle /\ MatIdle /\ NoOtherCall
    /\ exclude_patterns \in
          {e \in [given : BOOLEAN, patterns : SUBSET {".icloud", ".txt"}] :
             e.given \/ e.patterns = {}}
    /\ scan_seconds \in 1..MaxSeconds
    /\ faults \in
          {NoFault}
          \cup [kind : {"walk"}, name : {""},
                after : 0..(Len(RglobOrder) - 1)]
          \cup [kind : {"is_file", "stat"}, name : ScanNames, after : {0}]
    /\ returned = [fn |-> "none", raised |-> FALSE, value |-> {}]
    /\ HostIdle

ScanNext == CallFindPlaceholders \/ CallFindDataless \/ CallFindRecent

ScanSpec == ScanInit /\ [][ScanNext]_vars

(* ----------------------------- sync_status ---------------------------- *)

\* The SyncStatus values of the model: timestamp is a datetime, of which
\* the second and the microsecond are kept; commit_hash is None (<<>>) or
\* a hash.
SyncStatuses ==
    [timestamp : [second : 0..MaxSecond, microsecond : {0, 250000}],
     success : BOOLEAN, result_type : {"pushed", "failed"},
     message : {"m"}, commit_hash : {<<>>, <<"abc123">>}]

\* to_dict with the microseconds left out of the timestamp.
to_dict_seconds(status) ==
    [keys |-> {"timestamp", "success", "result_type", "message",
               "commit_hash"},
     timestamp |-> [type |-> "str", iso |-> TRUE,
                    second |-> status.timestamp.second,
                    fraction |-> <<>>],
     success |-> status.success, result_type |-> status.result_type,
     message |-> status.message, commit_hash |-> status.commit_hash]

\* Lines 37-45: to_dict; the keys of the dict and their JSON values.
\* isoformat() writes the fraction of the second only when the
\* microsecond is not 0.
to_dict(status) ==
    [keys |-> {"timestamp", "success", "result_type", "message",
               "commit_hash"},
     timestamp |-> [type |-> "str", iso |-> TRUE,
                    second |-> status.timestamp.second,
                    fraction |-> IF status.timestamp.microsecond = 0
                                 THEN <<>>
                                 ELSE <<status.timestamp.microsecond>>],
     success |-> status.success, result_type |-> status.result_type,
     message |-> status.message, commit_hash |-> status.commit_hash]

\* Lines 47-56: from_dict; data["timestamp"] and the other subscripts
\* raise KeyError for a missing key, fromisoformat raises TypeError for a
\* value that is no string and ValueError for a string that is no ISO
\* date, and data.get gives None for a missing commit_hash.
from_dict(data) ==
    IF "timestamp" \notin data.keys
    THEN [raises |-> "KeyError", value |-> <<>>]
    ELSE IF data.timestamp.type # "str"
    THEN [raises |-> "TypeError", value |-> <<>>]
    ELSE IF ~data.timestamp.iso
    THEN [raises |-> "ValueError", value |-> <<>>]
    ELSE IF ~({"success", "result_type", "message"} \subseteq data.keys)
    THEN [raises |-> "KeyError", value |-> <<>>]
    ELSE [raises |-> "none",
          value |-> <<[timestamp |->
                          [second |-> data.timestamp.second,
                           microsecond |->
                              IF data.timestamp.fraction = <<>> THEN 0
                              ELSE data.timestamp.fraction[1]],
                       success |-> data.success,
                       result_type |-> data.result_type,
                       message |-> data.message,
                       commit_hash |->
                          IF "commit_hash" \in data.keys
                          THEN data.commit_hash ELSE <<>>]>>]

\* Lines 112-120: load_sync_status on what STATUS_FILE holds: no file;
\* a file that cannot be opened (OSError); bytes that are no UTF-8
\* (UnicodeDecodeError, a ValueError); text that is no JSON
\* (JSONDecodeError); JSON that is no object (the subscript in from_dict
\* raises TypeError); an object.  OSError, JSONDecodeError and KeyError
\* are caught.
load_sync_status ==
    LET None == [called |-> TRUE, raises |-> "none", value |-> <<>>] IN
    CASE status_file.kind \in {"absent", "unreadable", "not json"} -> None
      [] status_file.kind = "not utf-8" ->
           [called |-> TRUE, raises |-> "UnicodeDecodeError", value |-> <<>>]
      [] status_file.kind = "not an object" ->
           [called |-> TRUE, raises |-> "TypeError", value |-> <<>>]
      [] status_file.kind = "object" ->
           LET r == from_dict(status_file.data) IN
           IF r.raises = "KeyError" THEN None
           ELSE [called |-> TRUE, raises |-> r.raises, value |-> r.value]

\* Lines 123-148, 91-103: record_sync_result(success, result_type,
\* message, commit_hash), at some datetime.now().  save_sync_status
\* creates the directory, outside its try; opens the file for writing,
\* which empties it; and dumps the dict.  Its write goes well, or mkdir
\* raises, or open raises OSError, or the dump raises OSError after a
\* part was written.
RecordSyncResult ==
    /\ \E status \in SyncStatuses, write \in {"ok", "mkdir", "open", "dump"} :
         /\ recorded' = [called |-> TRUE, status |-> status,
                         write |-> write, raised |-> write = "mkdir"]
         /\ status_file' =
              CASE write = "ok" ->
                     [kind |-> "object", data |-> to_dict(status)]
                [] write = "dump" -> [kind |-> "not json"]
                [] OTHER -> status_file
    /\ loaded' = [called |-> FALSE]
    /\ UNCHANGED <<envVars, progVars, statVars, matVars, callVars, scanVars,
                   platform, crontab, plist, agent_loaded, sched>>

\* A call of load_sync_status().
LoadSyncStatus ==
    /\ ~loaded.called
    /\ loaded' = load_sync_status
    /\ UNCHANGED <<envVars, progVars, statVars, matVars, callVars, scanVars,
                   status_file, recorded, platform, crontab, plist,
                   agent_loaded, sched>>

\* The status file before the first call: none, or one that something
\* else left there: unreadable, no UTF-8, no JSON, JSON that is no
\* object, or an object without a key, with a timestamp that is no ISO
\* date or no string, or a status written by an earlier run.
StatusInit ==
    /\ MainIdle /\ StatIdle /\ MatIdle /\ NoOtherCall /\ ScanIdle
    /\ \/ status_file \in [kind : {"absent", "unreadable", "not utf-8",
                                   "not json", "not an object"}]
       \/ \E status \in SyncStatuses :
            LET data == to_dict(status) IN
            /\ status.success /\ status.result_type = "pushed"
            /\ status_file \in
                 [kind : {"object"},
                  data : {data,
                          [data EXCEPT !.keys = @ \ {"timestamp"}],
                          [data EXCEPT !.keys = @ \ {"message"}],
                          [data EXCEPT !.keys = @ \ {"commit_hash"}],
                          [data EXCEPT !.timestamp.iso = FALSE],
                          [data EXCEPT !.timestamp.type = "number"]}]
    /\ recorded = [called |-> FALSE]
    /\ loaded = [called |-> FALSE]
    /\ platform = "linux" /\ crontab = <<>>
    /\ plist = [kind |-> "absent"] /\ agent_loaded = FALSE
    /\ sched = [fn |-> "none"]

StatusSpec == StatusInit /\ [][RecordSyncResult \/ LoadSyncStatus]_vars

(* ------------------------------ scheduler ----------------------------- *)

\* A line of the crontab is the sequence of its words, which single
\* spaces separate; a cron expression is the sequence of its five fields,
\* and a schedule that is no preset a string that split() cuts into one
\* word ("@reboot") or is written as its fields already.

\* Lines 24-31, 264, 267: SCHEDULE_PRESETS.get(schedule, schedule).split()
SCHEDULE_PRESETS(schedule) ==
    CASE schedule = "15min" -> <<"*/15", "*", "*", "*", "*">>
      [] schedule = "30min" -> <<"*/30", "*", "*", "*", "*">>
      [] schedule = "hourly" -> <<"0", "*", "*", "*", "*">>
      [] schedule = "daily" -> <<"0", "2", "*", "*", "*">>
      [] schedule = "daily_morning" -> <<"0", "9", "*", "*", "*">>
      [] schedule = "daily_evening" -> <<"0", "22", "*", "*", "*">>
      [] schedule = "0 5 * * *" -> <<"0", "5", "*", "*", "*">>
      [] OTHER -> <<schedule>>

\* Lines 256, 275, 284: "ot sync" in line.lower() or "ot-sync" in
\* line.lower(): a word that ends with "ot" is followed by one that
\* starts with "sync" (no word of the model holds "ot sync" or "ot-sync"
\* in itself: "ot.cli.main" does not end with "ot", and "auto-sync" holds
\* "o-sync").
Marked(line) ==
    \E i \in 1..(Len(line) - 1) :
       /\ line[i] \in {"ot", "/usr/bin/robot"}
       /\ line[i + 1] \in {"sync"}

\* Lines 269-270, 277, 218-221: the line of the CronJob that
\* _add_cron_schedule builds, config_path being None:
\* "{schedule} {sys.executable} -m ot.cli.main sync # {comment}".
to_cron_line(cron_schedule) ==
    cron_schedule \o <<"python3", "-m", "ot.cli.main", "sync">>
                  \o <<"#", "Obsidian", "Timemachine", "auto-sync">>

\* Lines 224-236: from_cron_line; a line that is empty or starts with "#"
\* is no job; the comment is cut off at the last "#"; fewer than six
\* fields are no job; the schedule is the first five fields.
from_cron_line(line) ==
    IF line = <<>> \/ line[1] = "#" THEN <<>>
    ELSE LET hashes == {i \in 1..Len(line) : line[i] = "#"}
             cut == IF hashes = {} THEN line
                    ELSE SubSeq(line, 1,
                                (CHOOSE i \in hashes :
                                    \A j \in hashes : j <= i) - 1)
         IN  IF Len(cut) < 6 THEN <<>>
             ELSE <<SubSeq(cut, 1, 5)>>

\* Lines 252-259: find_ot_cron_jobs on what crontab -l printed: the
\* schedules of the marked lines that are jobs, in their order.
RECURSIVE find_ot_cron_jobs(_)
find_ot_cron_jobs(lines) ==
    IF lines = <<>> THEN <<>>
    ELSE (IF Marked(Head(lines)) THEN from_cron_line(Head(lines))
          ELSE <<>>)
         \o find_ot_cron_jobs(Tail(lines))

\* Lines 35-42, 166-171: LAUNCHD_PRESETS[schedule], or nothing for a
\* schedule that is no preset; a key that a preset does not have is <<>>.
LAUNCHD_PRESETS(schedule) ==
    LET every(n) == <<[schedule_interval |-> <<n>>,
                       calendar_interval |-> <<>>]>>
        at(hour) == <<[schedule_interval |-> <<>>,
                       calendar_interval |->
                          <<[Hour |-> hour, Minute |-> 0]>>]>>
    IN  CASE schedule = "15min" -> every(900)
          [] schedule = "30min" -> every(1800)
          [] schedule = "hourly" -> every(3600)
          [] schedule = "daily" -> at(2)
          [] schedule = "daily_morning" -> at(9)
          [] schedule = "daily_evening" -> at(22)
          [] OTHER -> <<>>

\* launchd_ops lines 49-70: the schedule keys of the plist that
\* create_plist_content builds; a key is left out for None.
create_plist_content(launch_config) ==
    [kind |-> "plist",
     StartInterval |-> launch_config.schedule_interval,
     StartCalendarInterval |-> launch_config.calendar_interval]

\* launchd_ops lines 199-218: get_agent_schedule_info on the plist file:
\* None (<<>>) without a file, else the schedule keys it holds.
get_agent_schedule_info ==
    IF plist.kind = "absent" THEN <<>>
    ELSE <<[schedule_interval |-> plist.StartInterval,
            calendar_interval |-> plist.StartCalendarInterval]>>

\* The names of the intervals with those of 15 and 30 minutes exchanged.
get_schedule_frequency_name_swapped(info) ==
    IF info.schedule_interval # <<>>
    THEN CASE info.schedule_interval[1] = 900 -> <<"30min">>
           [] info.schedule_interval[1] = 1800 -> <<"15min">>
           [] info.schedule_interval[1] = 3600 -> <<"hourly">>
           [] OTHER -> <<>>
    ELSE IF info.calendar_interval # <<>>
    THEN LET cal == info.calendar_interval[1] IN
         CASE cal.Hour = 2 /\ cal.Minute = 0 -> <<"daily">>
           [] cal.Hour = 9 /\ cal.Minute = 0 -> <<"daily_morning">>
           [] cal.Hour = 22 /\ cal.Minute = 0 -> <<"daily_evening">>
           [] OTHER -> <<"daily_HH:MM">>
    ELSE <<>>

\* Lines 88-120: get_schedule_frequency_name; None is <<>>, and the
\* formatted name of another time of day is "daily_HH:MM".
get_schedule_frequency_name(info) ==
    IF info.schedule_interval # <<>>
    THEN CASE info.schedule_interval[1] = 900 -> <<"15min">>
           [] info.schedule_interval[1] = 1800 -> <<"30min">>
           [] info.schedule_interval[1] = 3600 -> <<"hourly">>
           [] OTHER -> <<>>
    ELSE IF info.calendar_interval # <<>>
    THEN LET cal == info.calendar_interval[1] IN
         CASE cal.Hour = 2 /\ cal.Minute = 0 -> <<"daily">>
           [] cal.Hour = 9 /\ cal.Minute = 0 -> <<"daily_morning">>
           [] cal.Hour = 22 /\ cal.Minute = 0 -> <<"daily_evening">>
           [] OTHER -> <<"daily_HH:MM">>
    ELSE <<>>

\* launchd_ops lines 90-146: install_agent(label, plist_content).  `how`
\* is how far it gets: mkdir of the directory fails; writing the file
\* fails; bootstrap exits 0; bootstrap fails and the legacy load exits 0;
\* both fail ("refused"); bootstrap times out.  From the write on, the
\* file holds the new content, and bootout was run first.
install_agent(plist_content, how) ==
    IF how \in {"mkdir", "write"}
    THEN [value |-> FALSE, plist |-> plist, loaded |-> agent_loaded,
          commands |-> <<>>]
    ELSE [value |-> how \in {"bootstrap", "load"},
          plist |-> plist_content,
          loaded |-> how \in {"bootstrap", "load"},
          commands |-> IF how \in {"load", "refused"}
                       THEN <<"bootout", "bootstrap", "load">>
                       ELSE <<"bootout", "bootstrap">>]

\* remove_agent that deletes the file before it unloads the job.
remove_agent_unlink_first(unloads, unlinks) ==
    IF plist.kind = "absent"
    THEN [value |-> TRUE, plist |-> plist, loaded |-> agent_loaded,
          commands |-> <<>>]
    ELSE [value |-> unlinks,
          plist |-> IF unlinks THEN [kind |-> "absent"] ELSE plist,
          loaded |-> agent_loaded /\ ~unloads,
          commands |-> <<"unlink", "bootout", "unload">>]

\* launchd_ops lines 159-183: remove_agent(label): True at once without
\* a plist file; else bootout and the legacy unload, which unload the
\* job or do not, their exit status ignored, and then the unlink of the
\* file, which returns True, or raises OSError and returns False.
remove_agent(unloads, unlinks) ==
    IF plist.kind = "absent"
    THEN [value |-> TRUE, plist |-> plist, loaded |-> agent_loaded,
          commands |-> <<>>]
    ELSE [value |-> unlinks,
          plist |-> IF unlinks THEN [kind |-> "absent"] ELSE plist,
          loaded |-> agent_loaded /\ ~unloads,
          commands |-> <<"bootout", "unload", "unlink">>]

\* Lines 239-250, 281-285: _remove_cron_schedule: the crontab after it.
\* crontab -l prints the lines, or fails (exit status, timeout), which
\* reads as an empty crontab; the lines without a marker are written
\* back, "\n" for none, which is one empty line; crontab - installs them
\* ("ok"), or exits with another status, or raises.
_remove_cron_schedule(read, write) ==
    LET new_lines == SelectSeq(IF read = "ok" THEN crontab ELSE <<>>,
                               LAMBDA line : ~Marked(line))
    IN  IF write # "ok" THEN crontab
        ELSE IF new_lines = <<>> THEN << <<>> >> ELSE new_lines

\* Lines 49-55, 159-197, 261-279: add_sync_schedule(schedule).
AddSyncSchedule ==
    /\ Len(crontab) < MaxLines
    /\ \E schedule \in {"15min", "30min", "hourly", "daily",
                        "daily_morning", "daily_evening", "0 5 * * *",
                        "@reboot"},
          read \in {"ok", "fails"}, write \in {"ok", "nonzero", "raises"},
          how \in {"mkdir", "write", "bootstrap", "load", "refused",
                   "timeout"} :
         IF platform = "darwin"
         THEN IF LAUNCHD_PRESETS(schedule) = <<>>
              THEN /\ sched' = [fn |-> "add_sync_schedule",
                                arg |-> schedule, value |-> FALSE,
                                read |-> "none", write |-> "none",
                                commands |-> <<>>]
                   /\ UNCHANGED <<crontab, plist, agent_loaded>>
              ELSE LET installed ==
                         install_agent(
                            create_plist_content(
                               LAUNCHD_PRESETS(schedule)[1]), how)
                   IN  /\ how = "mkdir" => plist.kind = "absent"
                       /\ crontab' = _remove_cron_schedule(read, write)
                       /\ plist' = installed.plist
                       /\ agent_loaded' = installed.loaded
                       /\ sched' = [fn |-> "add_sync_schedule",
                                    arg |-> schedule,
                                    value |-> installed.value,
                                    read |-> read, write |-> write,
                                    commands |-> installed.commands]
         ELSE /\ how = "bootstrap"
              /\ LET cron_schedule == SCHEDULE_PRESETS(schedule) IN
                 IF Len(cron_schedule) # 5
                 THEN /\ sched' = [fn |-> "add_sync_schedule",
                                   arg |-> schedule, value |-> FALSE,
                                   read |-> "none", write |-> "none",
                                   commands |-> <<>>]
                      /\ UNCHANGED crontab
                 ELSE /\ crontab' =
                           IF write # "ok" THEN crontab
                           ELSE Append(
                                  SelectSeq(IF read = "ok" THEN crontab
                                            ELSE <<>>,
                                            LAMBDA line : ~Marked(line)),
                                  to_cron_line(cron_schedule))
                      /\ sched' = [fn |-> "add_sync_schedule",
                                   arg |-> schedule,
                                   value |-> write # "raises",
                                   read |-> read, write |-> write,
                                   commands |-> <<>>]
              /\ UNCHANGED <<plist, agent_loaded>>
    /\ UNCHANGED <<envVars, progVars, statVars, matVars, callVars, scanVars,
                   status_file, recorded, loaded, platform>>

\* Lines 58-65: remove_sync_schedule().
RemoveSyncSchedule ==
    /\ \E read \in {"ok", "fails"}, write \in {"ok", "nonzero", "raises"},
          unloads \in BOOLEAN, unlinks \in BOOLEAN :
         /\ crontab' = _remove_cron_schedule(read, write)
         /\ IF platform = "darwin"
            THEN LET removed == remove_agent(unloads, unlinks) IN
                 /\ plist' = removed.plist
                 /\ agent_loaded' = removed.loaded
                 /\ sched' = [fn |-> "remove_sync_schedule", arg |-> "",
                              value |-> removed.value,
                              read |-> read, write |-> write,
                              commands |-> removed.commands]
            ELSE /\ unloads /\ unlinks
                 /\ sched' = [fn |-> "remove_sync_schedule", arg |-> "",
                              value |-> write # "raises",
                              read |-> read, write |-> write,
                              commands |-> <<>>]
                 /\ UNCHANGED <<plist, agent_loaded>>
    /\ UNCHANGED <<envVars, progVars, statVars, matVars, callVars, scanVars,
                   status_file, recorded, loaded, platform>>

\* Lines 68-85: get_current_schedule(); what it returns is kept in
\* `schedule`: <<>> for None, else the name or the cron expression.
GetCurrentSchedule ==
    /\ \E read \in {"ok", "fails"} :
         sched' =
            [fn |-> "get_current_schedule", read |-> read,
             schedule |->
                IF platform = "darwin"
                THEN LET info == get_agent_schedule_info IN
                     IF info = <<>> THEN <<>>
                     ELSE IF get_schedule_frequency_name(info[1]) # <<>>
                     THEN get_schedule_frequency_name(info[1])
                     ELSE <<"custom">>
                ELSE LET jobs == find_ot_cron_jobs(
                                    IF read = "ok" THEN crontab ELSE <<>>)
                     IN  IF jobs # <<>> THEN <<jobs[1]>> ELSE <<>>]
    /\ UNCHANGED <<envVars, progVars, statVars, matVars, callVars, scanVars,
                   status_file, recorded, loaded, platform, crontab, plist,
                   agent_loaded>>

\* The platform is macOS or another; the crontab holds lines of the
\* user, one of which may end in "robot sync"; on macOS a plist of
\* another interval may be there, its job loaded.
SchedInit ==
    /\ MainIdle /\ StatIdle /\ MatIdle /\ NoOtherCall /\ ScanIdle
    /\ status_file = [kind |-> "absent"]
    /\ recorded = [called |-> FALSE] /\ loaded = [called |-> FALSE]
    /\ platform \in {"darwin", "linux"}
    /\ crontab \in
         {<<>>,
          <<<<"MAILTO=me">>, <<"5", "4", "*", "*", "*", "backup">>>>,
          <<<<"0", "1", "*", "*", "*", "/usr/bin/robot", "sync">>,
            <<"5", "4", "*", "*", "*", "backup">>>>}
    /\ \/ plist = [kind |-> "absent"] /\ agent_loaded = FALSE
       \/ /\ platform = "darwin"
          /\ plist = [kind |-> "plist", StartInterval |-> <<600>>,
                      StartCalendarInterval |-> <<>>]
          /\ agent_loaded = TRUE
    /\ sched = [fn |-> "none"]

SchedSpec ==
    SchedInit
    /\ [][AddSyncSchedule \/ RemoveSyncSchedule \/ GetCurrentSchedule]_vars

(* ----------------------------- properties ----------------------------- *)

Elapsed == now - start_time
Returned == pc = "returned"
\* The call is inside download_dataless_files.
InMaterializer ==
    \/ pc \in {"download", "downloaded"}
    \/ pc = "sleeping" /\ resume = "downloaded"
\* The arguments are no configuration error.
ValidConfig ==
    max_wait_seconds > 0 /\ check_interval > 0 /\ stability_threshold >= 1

\* C1: the stability counter is the number of clean samples since the last
\* sample that found a placeholder, materialized or found a recent file
\* (any such sample resets it to 0), and with stability_threshold >= 1 the
\* call is Ready, and returns True, only when the last stability_threshold
\* samples were clean.
C1_TrueOnlyAfterCleanRun ==
    /\ stable_count = h.cleanRun
    /\ (stability_threshold >= 1 /\ (pc = "ready" \/ result = "True"))
          => /\ h.cleanRun >= stability_threshold
             /\ h.polls >= stability_threshold

\* C1 witness: True returned after a reset: more samples than the threshold.
C1_Witness ==
    /\ Returned /\ result = "True"
    /\ stability_threshold = 2 /\ h.cleanRun = 2
    /\ h.anyRecent /\ h.phPolls >= 1 /\ h.matCalls = 1 /\ h.polls >= 5

\* C2: while every sample so far found a placeholder the call never
\* returns True; it returns False at the first loop top with
\* elapsed >= max_wait_seconds, less than one poll interval after the
\* deadline; and no sample (of any call) starts at or after the deadline.
C2_PlaceholdersForeverTimeOut ==
    /\ h.polls > 0 => h.lastPollAt - start_time < max_wait_seconds
    /\ (ValidConfig /\ h.phPolls = h.polls) =>
          /\ pc # "ready" /\ result # "True"
          /\ Returned =>
                /\ result = "False"
                /\ Elapsed >= max_wait_seconds
                /\ Elapsed < max_wait_seconds + check_interval
                /\ stable_count = 0

\* C2 witness: a timeout after several samples that all found a placeholder.
C2_Witness ==
    /\ ValidConfig /\ Returned /\ result = "False"
    /\ h.polls >= 3 /\ h.phPolls = h.polls

\* C3: download_dataless_files is called at most once in an invocation,
\* and only in a sample that found no placeholder and found a dataless
\* file, with download_dataless set and no earlier attempt.
C3_MaterializerAtMostOnce ==
    /\ h.matCalls <= 1
    /\ h.matCalls = 1 => download_dataless
    /\ dataless_download_attempted => h.matCalls = 1
    /\ InMaterializer =>
          ~h.curPh /\ h.curDl /\ ~dataless_download_attempted

\* C3 witness: after the one call, a later sample finds a dataless file
\* again (one that appeared after the call found none) and does not call.
C3_Witness ==
    /\ pc = "remaining" /\ h.matCalls = 1 /\ h.anyNoDl /\ h.polls >= 3
    /\ dataless_download_attempted

\* Every finished sample found a dataless file at each of its dataless
\* scans, and none found a placeholder or a recently modified file.
DatalessOnlyTree ==
    h.phPolls = 0 /\ ~h.anyRecent /\ ~h.anyNoDl /\ h.anyDl

\* C4 as claimed, for a call that leaves download_dataless at its default:
\* on such a tree the call makes exactly one materializer call, logs the
\* warning and returns True.
C4_Original ==
    (ValidConfig /\ download_dataless /\ DatalessOnlyTree /\ Returned) =>
        result = "True" /\ h.matCalls = 1 /\ h.warned

\* C4 amended: on such a tree the materializer is called exactly once when
\* download_dataless is set and never otherwise; the call returns True,
\* after the warning and after stability_threshold samples beyond the
\* materializing one, unless the deadline is reached at the top of an
\* iteration before that, and then it returns False: the time of the
\* materializer call and of the extra sample counts against the deadline.
C4_DatalessOnlyTree ==
    (ValidConfig /\ DatalessOnlyTree /\ Returned) =>
        /\ h.matCalls = (IF download_dataless THEN 1 ELSE 0)
        /\ result \in {"True", "False"}
        /\ result = "True" =>
              /\ h.warned
              /\ h.polls = stability_threshold + h.matCalls
        /\ result = "False" =>
              /\ Elapsed >= max_wait_seconds
              /\ h.polls < stability_threshold + h.matCalls
        /\ (download_dataless /\ max_wait_seconds > BatchSettle + MaxVerifyLag
                                    + stability_threshold * check_interval)
              => result = "True"
        /\ max_wait_seconds <= (stability_threshold + h.matCalls - 1)
                                  * check_interval
              => result = "False"

\* C4 witness: True after one materializer call that resolved nothing.
C4_Witness ==
    /\ ValidConfig /\ DatalessOnlyTree /\ Returned /\ result = "True"
    /\ h.matCalls = 1 /\ h.warned /\ stability_threshold = 2

\* Every finished sample found no placeholder, no dataless file and no
\* recently modified file.
CleanTree == h.phPolls = 0 /\ ~h.anyDl /\ ~h.anyRecent

\* C5 as claimed: on a clean tree the call returns True after exactly
\* stability_threshold samples, within stability_threshold poll intervals
\* plus the settle delay.
C5_Original ==
    (ValidConfig /\ CleanTree /\ Returned) =>
        /\ result = "True"
        /\ h.polls = stability_threshold
        /\ Elapsed <= stability_threshold * check_interval + SettleDelay

\* C5 amended: on a clean tree the call returns True after exactly
\* stability_threshold samples, stability_threshold - 1 poll intervals plus
\* the settle delay after its start, unless the deadline is reached at the
\* top of one of these iterations; then it returns False after fewer samples.
C5_CleanTreeReady ==
    (ValidConfig /\ CleanTree /\ Returned) =>
        IF (stability_threshold - 1) * check_interval < max_wait_seconds
        THEN /\ result = "True"
             /\ h.polls = stability_threshold
             /\ Elapsed = (stability_threshold - 1) * check_interval
                            + SettleDelay
        ELSE /\ result = "False"
             /\ h.polls < stability_threshold
             /\ Elapsed >= max_wait_seconds

\* C5 witness: True on a clean tree after two samples.
C5_Witness ==
    /\ ValidConfig /\ CleanTree /\ Returned /\ result = "True"
    /\ rootExists /\ stability_threshold = 2 /\ h.polls = 2

\* The first two samples found a placeholder, the third and every later
\* one did not, and no sample found a dataless or recently modified file.
PlaceholdersVanishAfterTwo ==
    /\ h.phPolls = 2 /\ h.phPrefix /\ h.polls >= 3
    /\ ~h.anyDl /\ ~h.anyRecent

\* C6 as claimed: then the call returns True after 2 + stability_threshold
\* samples.
C6_Original ==
    (ValidConfig /\ PlaceholdersVanishAfterTwo /\ Returned) =>
        result = "True" /\ h.polls = 2 + stability_threshold

\* C6 amended: then the call returns True after 2 + stability_threshold
\* samples unless the deadline is reached at the top of one of these
\* iterations; then it returns False after fewer samples.
C6_PlaceholdersVanish ==
    (ValidConfig /\ PlaceholdersVanishAfterTwo /\ Returned) =>
        IF (1 + stability_threshold) * check_interval < max_wait_seconds
        THEN /\ result = "True"
             /\ h.polls = 2 + stability_threshold
             /\ Elapsed = (1 + stability_threshold) * check_interval
                            + SettleDelay
        ELSE /\ result = "False"
             /\ h.polls < 2 + stability_threshold
             /\ Elapsed >= max_wait_seconds

\* C6 witness: True after two placeholder samples and two clean ones.
C6_Witness ==
    /\ ValidConfig /\ PlaceholdersVanishAfterTwo /\ Returned
    /\ result = "True" /\ stability_threshold = 2 /\ h.polls = 4

\* The scenario of C7 so far: check_interval 1, stability_threshold 2,
\* max_wait_seconds 10; b.txt was last modified at t = 0 and is not
\* dataless; the sample at t = 0 found the placeholder, and no sample from
\* t = 2 on did.
ScenarioC7 ==
    /\ check_interval = 1 /\ stability_threshold = 2
    /\ max_wait_seconds = 10
    /\ rootExists /\ start_time = 0
    /\ \A f \in RegularNames : mtime[f] = 0
    /\ h.phPolls \in {1, 2} /\ h.phPrefix /\ ~h.anyDl

\* C7 as claimed: the samples at t = 2 and t = 3 are clean and the call is
\* Ready at about t = 4 plus the settle delay.
C7_Original ==
    /\ (ScenarioC7 /\ h.lastPollAt = 3 /\ pc # "find_dataless"
           /\ pc # "find_recent") => h.cleanRun = 2
    /\ (ScenarioC7 /\ Returned) =>
           result = "True" /\ Elapsed <= 4 + SettleDelay

\* C7 amended: b.txt, modified at t = 0, is recent (within the 5 s window)
\* at the samples t = 2, 3 and 4; the samples at t = 5 and t = 6 are the two
\* clean ones, and the call returns True at t = 6 plus the settle delay,
\* after 7 samples.
C7_ScenarioReadyAtSix ==
    /\ (ScenarioC7 /\ h.lastPollAt < RecentWindow) =>
           h.cleanRun = 0 /\ pc # "ready" /\ result = "none"
    /\ (ScenarioC7 /\ h.lastPollAt \in 2..(RecentWindow - 1)
           /\ pc \in {"sleeping", "top"}) => h.anyRecent
    /\ (ScenarioC7 /\ Returned) =>
           /\ result = "True"
           /\ h.polls = 7 /\ h.lastPollAt = 6 /\ h.cleanRun = 2
           /\ Elapsed = 6 + SettleDelay

\* C7 witness: the scenario ran to its end.
C7_Witness ==
    ScenarioC7 /\ Returned /\ result = "True" /\ h.phPolls = 2 /\ now = 7

C9_DeadlineAtTop ==
    [][/\ (pc = "top" /\ pc' # pc /\ Elapsed >= max_wait_seconds) =>
             /\ pc' = "returned" /\ result' = "False"
             /\ h' = h /\ now' = now
             /\ UNCHANGED <<stable_count, dataless_download_attempted>>
       /\ (result = "none" /\ result' = "False") =>
             pc = "top" /\ Elapsed >= max_wait_seconds]_vars

\* C9 witness: False returned with the counter one short of the threshold.
C9_Witness ==
    /\ ValidConfig /\ Returned /\ result = "False"
    /\ stable_count >= 1 /\ stable_count = stability_threshold - 1

\* The arguments are a configuration error.
ConfigError ==
    max_wait_seconds <= 0 \/ check_interval <= 0 \/ stability_threshold < 1

\* C10 as claimed: a call with a configuration error scans nothing, sleeps
\* for no time, materializes nothing and returns neither True nor False.
C10_Claim ==
    ConfigError =>
        /\ h.polls = 0 /\ h.matCalls = 0
        /\ pc # "sleeping" /\ now = start_time
        /\ result \notin {"True", "False"}

\* The clock of the model never stops a sleep of the function.
ClockCapNotReached == pc = "sleeping" => now < ClockCap

\* With the root absent the three scanners return nothing, no dataless scan
\* finds a file and the materializer is never entered.
RootAbsentScans ==
    /\ find_icloud_placeholders = {}
    /\ find_dataless_files = {}
    /\ find_recently_modified_files(RecentWindow) = {}
    /\ h.phPolls = 0 /\ ~h.anyDl /\ ~h.anyRecent
    /\ h.matCalls = 0 /\ ~InMaterializer /\ pc # "raised"

\* C11 as claimed: with the root absent the scanners return nothing, the
\* materializer is not called and the call returns True.
C11_Original ==
    (ValidConfig /\ ~rootExists) =>
        RootAbsentScans /\ (Returned => result = "True")

\* C11 amended: with the root absent the scanners return nothing and the
\* materializer is not called; every sample is clean, and the call returns
\* True after stability_threshold samples unless the deadline is reached at
\* the top of one of these iterations, and then it returns False.
C11_RootAbsent ==
    (ValidConfig /\ ~rootExists) =>
        /\ RootAbsentScans
        /\ stable_count = h.polls \/ pc = "find_dataless" \/ pc = "find_recent"
        /\ Returned =>
              IF (stability_threshold - 1) * check_interval < max_wait_seconds
              THEN result = "True" /\ h.polls = stability_threshold
              ELSE /\ result = "False" /\ h.polls < stability_threshold
                   /\ Elapsed >= max_wait_seconds

\* C11 witness: True for an absent root after two samples.
C11_Witness ==
    /\ ValidConfig /\ ~rootExists /\ Returned /\ result = "True"
    /\ stability_threshold = 2 /\ h.polls = 2 /\ h.matCalls = 0

\* C12: a sample that finds a placeholder sets the stability counter to 0
\* and sleeps one check_interval, after which the function is at the top of
\* the loop again; it runs no dataless scan, no materializer call and no
\* stability check, logs no warning and leaves the attempted flag as it was.
C12_PlaceholderPriority ==
    [][(/\ pc = "top" /\ h'.polls # h.polls
        /\ find_icloud_placeholders # {}) =>
           /\ stable_count' = 0
           /\ dataless_download_attempted' = dataless_download_attempted
           /\ h'.phPolls = h.phPolls + 1 /\ h'.cleanRun = 0
           /\ h'.matCalls = h.matCalls /\ h'.warned = h.warned
           /\ h'.anyDl = h.anyDl /\ h'.anyNoDl = h.anyNoDl
           /\ h'.anyRecent = h.anyRecent
           /\ now' = now
           /\ pc' \in {"sleeping", "raised"}
           /\ check_interval > 0 =>
                 /\ pc' = "sleeping" /\ resume' = "top"
                 /\ wakeAt' = now + check_interval]_vars

\* C12 witness: asleep after a sample that found a placeholder, the sample
\* before it having been a clean one; no sample materialized or found a
\* recent file, and a clean sample leaves the counter above 0.
C12_Witness ==
    /\ ValidConfig /\ pc = "sleeping" /\ resume = "top"
    /\ h.lastPollAt = now /\ h.polls >= 2
    /\ ~h.phPrefix /\ h.matCalls = 0 /\ ~h.anyRecent
    /\ stable_count = 0 /\ h.anyDl

\* C13: with the download already attempted, a sample that found no
\* placeholder and found a dataless file goes on, the counter and the
\* flag as they were and without a materializer call, to the second
\* dataless scan and from there to the stability check of the same sample,
\* which adds exactly 1 to the counter when no file is recent and resets
\* it otherwise.
C13_DatalessFallsThrough ==
    [][/\ (/\ pc = "find_dataless" /\ pc' # pc
           /\ dataless_download_attempted /\ find_dataless_files # {}) =>
              /\ pc' = "remaining"
              /\ UNCHANGED <<stable_count, dataless_download_attempted, now>>
              /\ h'.matCalls = h.matCalls /\ h'.polls = h.polls
       /\ (pc = "remaining" /\ pc' # pc) =>
              /\ pc' = "find_recent"
              /\ UNCHANGED <<stable_count, dataless_download_attempted, now>>
              /\ h'.matCalls = h.matCalls /\ h'.polls = h.polls
              /\ h'.warned = (h.warned \/ find_dataless_files # {})
       /\ (/\ pc = "find_recent" /\ pc' # pc
           /\ dataless_download_attempted /\ h.curDl) =>
              /\ stable_count' =
                    IF find_recently_modified_files(RecentWindow) = {}
                    THEN stable_count + 1 ELSE 0
              /\ stable_count = h.cleanRun
              /\ h'.polls = h.polls /\ h'.matCalls = h.matCalls]_vars

\* C13 witness: asleep after the sample that followed the materializing
\* one; it found a dataless file, as every dataless scan did, logged the
\* warning and counted as the first clean sample.
C13_Witness ==
    /\ ValidConfig /\ pc = "sleeping" /\ resume = "top"
    /\ dataless_download_attempted /\ h.matCalls = 1 /\ h.polls = 2
    /\ h.anyDl /\ ~h.anyNoDl /\ h.warned
    /\ stable_count = 1 /\ stability_threshold = 2

\* The three signals of a dataless file in the outcome s of os.stat: the
\* bit 0x20 of st_flags, no blocks, a size.
ThreeSignals(s) ==
    /\ s.raises = "none"
    /\ (s.st_flags \div UF_COMPRESSED) % 2 = 1
    /\ s.st_blocks = 0
    /\ s.st_size > 0

\* The verdict of the last call of is_dataless_file.
LastVerdict == verdicts[Len(verdicts)]

\* C14: is_dataless_file returns True exactly when os.stat succeeds and its
\* result has the bit 0x20 of st_flags set, st_blocks = 0 and st_size > 0;
\* it returns False when a signal is missing, when os.stat raises and when
\* the result has no st_flags.
C14_ThreeSignals ==
    verdicts # <<>> =>
        /\ LastVerdict = ThreeSignals(lastSnap)
        /\ lastSnap.raises \in {"OSError", "AttributeError"} => ~LastVerdict
        /\ lastSnap.st_flags < UF_COMPRESSED => ~LastVerdict
        /\ lastSnap.st_blocks > 0 => ~LastVerdict
        /\ lastSnap.st_size = 0 => ~LastVerdict

\* C14 witness: True for a file with the flag among other flags.
C14_Witness ==
    /\ verdicts # <<>> /\ LastVerdict
    /\ lastSnap.st_flags > UF_COMPRESSED

\* The content of the file is on the disk: it has blocks, or it is empty.
Resident(s) == s.raises = "none" /\ (s.st_blocks > 0 \/ s.st_size = 0)

\* C15: calls of is_dataless_file to which os.stat gave the same all
\* return the same, and False when that is the stat of a resident file.
C15_NoFlapping ==
    (sameSnap /\ verdicts # <<>>) =>
        /\ \A i, j \in 1..Len(verdicts) : verdicts[i] = verdicts[j]
        /\ Resident(lastSnap) => \A i \in 1..Len(verdicts) : ~verdicts[i]

\* C15 witness: False twice for a resident file that has the flag.
C15_Witness ==
    /\ sameSnap /\ Len(verdicts) = 2 /\ Resident(lastSnap)
    /\ lastSnap.st_flags = UF_COMPRESSED /\ lastSnap.st_blocks > 0
    /\ lastSnap.st_size > 0
    /\ verdicts = <<FALSE, FALSE>>

\* A call of download_dataless_files returned its pair of counts.
MatReturned == entry = "download_dataless_files" /\ mpc = "m_done"

\* C16 as claimed: for every call of download_dataless_files that
\* returns, succeeded + failed is the number of files selected,
\* min(number of dataless files discovered, max_files), in batch mode and
\* in single-file mode, for every max_files and batch_size the function
\* accepts; stated for max_files >= 0 only (a negative max_files, a slice
\* from the end, selects all files but the last -max_files).
C16_Claim ==
    (MatReturned /\ max_files >= 0) =>
        /\ mresult[1] + mresult[2] = Len(files_to_download)
        /\ Len(files_to_download) = Min(Len(mh.discovered), max_files)

\* The arguments of download_dataless_files are no configuration error.
ValidMatArgs == max_files >= 0 /\ batch_size >= 1

\* The call went into _download_batch_brctl and slept for a batch.
BatchMode == mh.settles > 0

\* The file at place p of the list find_dataless_files returned.
Discovered(p) == mh.discovered[p]

BatchPhase ==
    mpc \in {"b_batch", "b_trigger", "b_settle", "b_verify"} \/ BatchMode

\* The batch of the file at place p of files_to_download, from 0.
BatchOf(p) == (p - 1) \div batch_size

\* C18: in batch mode, with batch_size >= 1: a file is verified only
\* after every file of its batch was triggered; a file is triggered only
\* after every file of the batches before its own was counted; the settle
\* sleeps so far are one for each batch whose files were all triggered
\* and none for the others, so none falls between two triggers of a
\* batch; and a file is slept on only in its verification.
C18_FanOutSettleFanIn ==
    (entry = "download_dataless_files" /\ BatchPhase /\ batch_size >= 1) =>
        /\ \A p, q \in 1..Len(files_to_download) :
              /\ (/\ BatchOf(p) = BatchOf(q)
                  /\ mh.checks[files_to_download[p]] > 0)
                    => mh.trig[files_to_download[q]] = 1
              /\ (/\ BatchOf(q) < BatchOf(p)
                  /\ mh.trig[files_to_download[p]] > 0)
                    => mh.out[files_to_download[q]] # "none"
        /\ \A p \in 1..Len(files_to_download) :
              /\ mh.checks[files_to_download[p]] > 0
                    => BatchOf(p) < mh.settles
              /\ BatchOf(p) < mh.settles
                    => mh.trig[files_to_download[p]] = 1
              /\ mh.waits[files_to_download[p]] # <<>>
                    => mh.checks[files_to_download[p]] > 0
        /\ mh.settles > 0 =>
              \E p \in 1..Len(files_to_download) :
                 BatchOf(p) = mh.settles - 1
        /\ mpc \in {"b_trigger", "b_settle"} =>
              /\ mh.settles * batch_size = batch_start
              /\ \A i \in 1..Len(Batch) :
                    /\ mh.checks[Batch[i]] = 0
                    /\ mh.trig[Batch[i]] =
                          IF i < idx \/ mpc = "b_settle" THEN 1 ELSE 0
        /\ mpc = "b_verify" =>
              (mh.settles - 1) * batch_size = batch_start

\* C18 witness: the second file of a batch of two is being verified after
\* both were triggered and slept on once; the third file, of the next
\* batch, is not triggered yet.
C18_Witness ==
    /\ entry = "download_dataless_files" /\ mpc = "b_verify"
    /\ batch_size = 2 /\ batch_start = 0 /\ idx = 2 /\ mh.settles = 1
    /\ Len(files_to_download) = 3
    /\ mh.trig = [f \in MatNames |-> IF f <= 2 THEN 1 ELSE 0]
    /\ mh.out[1] = "failed" /\ mh.checks[2] = 1 /\ mh.out[3] = "none"

\* C19 as claimed: the delay before each further verification attempt of
\* a file is longer than the one before it, up to the cap; a verified file
\* is failed only after every attempt found it dataless, and a file found
\* resident at an attempt is counted as succeeded.
C19_Original ==
    \A f \in MatNames :
        /\ \A k \in 2..Len(mh.waits[f]) :
              \/ mh.waits[f][k] > mh.waits[f][k - 1]
              \/ mh.waits[f][k] = VerifyWaitCap
        /\ (mh.out[f] = "failed" /\ mh.checks[f] > 0) =>
              mh.checks[f] >= Min(max_verify_attempts, BatchChecks)
        /\ mh.out[f] = "ok" => mh.checks[f] >= 1

\* C19 amended.  In single-file mode a file is checked at most
\* max_verify_attempts + 1 times; a sleep of verify_wait precedes each of
\* the first max_verify_attempts checks, 0.5 s at first and then 1.5 times
\* the one before, up to the cap of 2.0 s, and no sleep precedes the last
\* check.  In batch mode a file is checked at most 3 times and a sleep of
\* 0.3 s, always the same, follows each check that found it dataless.  In
\* both modes a verified file is failed only after all these checks found
\* it dataless, and it is counted as succeeded at the first check that
\* finds it resident.
C19_VerifyRetries ==
    \A f \in MatNames :
        LET n == mh.checks[f]
            w == mh.waits[f]
        IN  /\ mh.out[f] = "ok" => n >= 1
            /\ ~BatchPhase =>
                  /\ n <= max_verify_attempts + 1
                  /\ Len(w) = Min(n, max_verify_attempts)
                  /\ \A k \in 1..Len(w) :
                        w[k] = IF k = 1 THEN FirstVerifyWait
                               ELSE Min((w[k - 1] * 3) \div 2, VerifyWaitCap)
                  /\ \A k \in 2..Len(w) :
                        w[k] > w[k - 1] \/ w[k] = VerifyWaitCap
                  /\ (mh.out[f] = "failed" /\ n > 0) =>
                        n = max_verify_attempts + 1
                  /\ (mh.out[f] = "none" /\ n > 0) =>
                        /\ mpc = "s_verify" /\ files_to_download[idx] = f
                        /\ attempt = n /\ n <= max_verify_attempts
            /\ BatchPhase =>
                  /\ n <= BatchChecks
                  /\ \A k \in 1..Len(w) : w[k] = RecheckTicks
                  /\ Len(w) = IF mh.out[f] = "ok" THEN n - 1 ELSE n
                  /\ mh.out[f] = "failed" => n = BatchChecks
                  /\ (mh.out[f] = "none" /\ n > 0) =>
                        mpc = "b_verify" /\ Batch[idx] = f /\ attempt = n

\* C19 witness: download_dataless_file with max_verify_attempts = 5 slept
\* 0.5, 0.75, 1.125, 1.6875 and 2.0 s before its first five checks, and
\* its sixth check failed the file.
C19_Witness ==
    /\ entry = "download_dataless_file" /\ mpc = "m_done"
    /\ max_verify_attempts = 5
    /\ \E f \in MatNames :
          /\ mh.waits[f] = <<40, 60, 90, 135, 160>>
          /\ mh.checks[f] = 6 /\ mh.out[f] = "failed"

\* C20 as claimed: the materializer is idempotent.  A step that settles
\* the outcome of a file that is resident counts it as succeeded, a check
\* that finds a file resident is followed by no retry sleep, and a call
\* that discovers no dataless file returns (0, 0) with no trigger issued.
C20_Claim ==
    [][/\ \A f \in MatNames :
            (f \notin evicted /\ mh.out[f] = "none"
                /\ mh'.out[f] # "none") =>
                /\ mh'.out[f] = "ok"
                /\ success_count' = success_count + 1
                /\ BatchPhase => mh'.waits[f] = mh.waits[f]
       /\ (MatReturned' /\ Len(mh'.discovered) = 0) =>
            /\ mresult' = <<0, 0>>
            /\ \A f \in MatNames : mh'.trig[f] = 0]_vars

\* The call of download_dataless_files went through the files it selected.
WentThrough == MatReturned /\ batch_size >= 1

\* C21: no error of the probe, of a trigger command or of the fallback
\* read leaves the materializer: the only exception out of it is the
\* ValueError of range() for batch_size = 0.  A trigger that raised fails,
\* at most, the file it was for: a file counted failed without a check is
\* one whose own trigger command failed, in single-file mode.  The other
\* files are still processed: when the call returns every selected file
\* was triggered and has been counted.
C21_ErrorsContained ==
    /\ mpc = "m_raised" => batch_size = 0 /\ mresult = "ValueError"
    /\ \A f \in MatNames :
          (mh.out[f] = "failed" /\ mh.checks[f] = 0) =>
              mh.failed[f] >= 1 /\ ~BatchPhase
    /\ WentThrough =>
          /\ \A p \in 1..Len(files_to_download) :
                /\ mh.trig[files_to_download[p]] = 1
                /\ mh.out[files_to_download[p]] \in {"ok", "failed"}
          /\ mresult[1] + mresult[2] = Len(files_to_download)

\* C21 witness: in single-file mode with brctl missing, the fallback read
\* of the first file raised and the file was failed without a check; the
\* second file was still processed and succeeded.
C21_Witness ==
    /\ WentThrough /\ ~brctl /\ files_to_download = <<1, 2>>
    /\ mh.failed[1] = 1 /\ mh.checks[1] = 0 /\ mh.out[1] = "failed"
    /\ mh.failed[2] = 0 /\ mh.out[2] = "ok"
    /\ mresult = <<1, 1>>

\* The trigger command of f raised: it timed out or could not be started.
TriggerRaised(f) == mh.failed[f] > mh.exits[f]

C23_Claim ==
    /\ mh.probes <= 1
    /\ mpc = "s_probe" => \A f \in MatNames : mh.trig[f] = 0

\* A call that follows an earlier one is running or has ended.
LaterCall == Len(earlier) >= 1

\* C24: nothing of an earlier call is left in a later one, however the
\* earlier one ended.  Before its first sample the call has stable_count 0
\* and dataless_download_attempted false; its counter is the number of
\* clean samples of its own since its own last reset, and it is Ready, and
\* returns True, only after stability_threshold clean samples of its own;
\* it calls the materializer at most once, with the flag still false,
\* and the flag is set only by a materializer call of its own.
C24_NoStateRetained ==
    LaterCall =>
        /\ (pc = "top" /\ h.polls = 0) =>
              stable_count = 0 /\ ~dataless_download_attempted
        /\ stable_count = h.cleanRun
        /\ (stability_threshold >= 1 /\ (pc = "ready" \/ result = "True"))
              => /\ h.cleanRun >= stability_threshold
                 /\ h.polls >= stability_threshold
        /\ h.matCalls <= 1
        /\ dataless_download_attempted => h.matCalls = 1
        /\ InMaterializer => ~dataless_download_attempted

\* C24 witness: the first call called the materializer and returned True;
\* the second called the materializer again, which reset its counter, and
\* returned True after a clean sample of its own.
C24_Witness ==
    /\ LaterCall
    /\ earlier[1].result = "True" /\ earlier[1].attempted
    /\ Returned /\ result = "True" /\ h.matCalls = 1
    /\ stability_threshold = 1 /\ h.cleanRun = 1 /\ h.polls = 2

\* What holds of one call by its own samples: its counter is the number
\* of its clean samples in a row, it is Ready, and returns True, only
\* after stability_threshold of them, and it calls the materializer at
\* most once, its flag set by that call only.
CallInv(f) ==
    /\ f.stable_count = f.h.cleanRun
    /\ (f.pc = "ready" \/ f.result = "True") =>
          /\ f.h.cleanRun >= stability_threshold
          /\ f.h.polls >= stability_threshold
    /\ f.h.matCalls <= 1
    /\ f.attempted => f.h.matCalls = 1

\* C25: two calls of wait_for_icloud_sync that run at the same time on one
\* tree share no counter and no flag.  Under every interleaving, a step of
\* one thread or of the environment leaves stable_count and
\* dataless_download_attempted of the call of the other thread as they
\* were, a thread that is given the processor goes on with the values its
\* own call had, and each call calls the materializer at most once and
\* returns True only after stability_threshold clean samples of its own in
\* a row.
C25_PrivateCounters ==
    [][/\ other' # other =>
             /\ stable_count' = other.stable_count
             /\ dataless_download_attempted' = other.attempted
             /\ other'.stable_count = stable_count
             /\ other'.attempted = dataless_download_attempted
       /\ CallInv(Frame)'
       /\ CallInv(other)']_vars

\* C25 witness: one call returned True after two clean samples of its
\* own, while the other, on the same tree, found a dataless file, called
\* the materializer, had its counter reset and timed out.
C25_Witness ==
    /\ other.tid # 0
    /\ Returned /\ result = "True" /\ h.cleanRun = 2 /\ h.matCalls = 0
    /\ other.result = "False" /\ other.h.matCalls = 1
    /\ other.h.polls >= 2

\* C26: with no I/O error, find_recently_modified_files(root, window,
\* excludes) returns exactly the files under root whose name contains no
\* exclude pattern (of the list passed, or of the defaults when none is
\* passed) and whose modification time is strictly newer than
\* now - window; a file modified exactly window seconds ago or earlier is
\* not returned.
C26_Claim ==
    (returned.fn = "find_recently_modified_files" /\ faults = NoFault
       /\ rootExists)
    => /\ ~returned.raised
       /\ returned.value =
            {f \in TreeFiles :
               /\ ~Excluded(f, IF exclude_patterns.given
                               THEN exclude_patterns.patterns
                               ELSE {".icloud", ".DS_Store"})
               /\ mtime[f] > now - scan_seconds}

\* What the scanner called returns when no I/O error meets the scan.
FaultFree ==
    CASE returned.fn = "find_icloud_placeholders" ->
           {f \in TreeFiles : NameContains(f, ".icloud")}
      [] returned.fn = "find_dataless_files" ->
           {f \in TreeFiles :
              /\ ~Excluded(f, EffectivePatterns({".DS_Store"}))
              /\ is_dataless_file(f)}
      [] returned.fn = "find_recently_modified_files" ->
           {f \in TreeFiles :
              /\ ~Excluded(f, EffectivePatterns({".icloud", ".DS_Store"}))
              /\ mtime[f] > CutoffTime(scan_seconds)}
      [] OTHER -> {}

\* C27: an I/O error on one entry of the tree never propagates out of a
\* scanner, and only that entry is skipped: every other entry is reported
\* as it is without the error.
C27_Claim ==
    (returned.fn # "none" /\ rootExists)
    => /\ ~returned.raised
       /\ returned.value \subseteq FaultFree
       /\ FaultFree \ {faults.name} \subseteq returned.value

\* C28: with no I/O error, neither the placeholder set nor the dataless
\* set returned holds an entry whose name contains one of the exclude
\* patterns the caller passed, and with an empty exclude list nothing is
\* skipped: every placeholder, every dataless file is returned.
C28_Claim ==
    (/\ returned.fn \in {"find_icloud_placeholders", "find_dataless_files"}
     /\ faults = NoFault /\ rootExists /\ exclude_patterns.given)
    => /\ \A f \in returned.value :
             ~Excluded(f, exclude_patterns.patterns)
       /\ exclude_patterns.patterns = {} =>
             returned.value =
               IF returned.fn = "find_icloud_placeholders"
               THEN {f \in TreeFiles : NameContains(f, ".icloud")}
               ELSE {f \in TreeFiles : is_dataless_file(f)}

\* C29: the deadline is not enforced inside an iteration.  In every step
\* of a call: an iteration that starts with elapsed < max_wait_seconds
\* takes its sample; a sleep is as long as asked for (check_interval
\* after a sample, the settle delay before True), whatever of
\* max_wait_seconds is left, and ends only when that time is over; the
\* call is at the top of the loop again only after the sleep of the
\* iteration; and it returns only from the top of the loop with
\* elapsed >= max_wait_seconds, or with True after the settle sleep,
\* however late that is.
C29_NoPreemption ==
    [][other' = other =>
         /\ (pc = "top" /\ pc' # pc /\ Elapsed < max_wait_seconds) =>
               h'.polls = h.polls + 1 /\ pc' # "returned"
         /\ (pc # "sleeping" /\ pc' = "sleeping") =>
               /\ resume' = "top" => wakeAt' = now + check_interval
               /\ resume' = "ready" => wakeAt' = now + SettleDelay
               /\ resume' = "downloaded" => wakeAt' > now
         /\ (pc = "sleeping" /\ pc' # pc) =>
               now' >= wakeAt /\ pc' = resume
         /\ (pc # "top" /\ pc' = "top") =>
               pc = "sleeping" /\ resume = "top"
         /\ (pc # "returned" /\ pc' = "returned") =>
               \/ pc = "top" /\ Elapsed >= max_wait_seconds
                  /\ result' = "False"
               \/ pc = "ready" /\ result' = "True"]_vars

\* C29 witness: True returned after more than max_wait_seconds: the last
\* iteration started before the deadline, its scans ended after it, and
\* the settle sleep followed.
C29_Witness ==
    /\ Returned /\ result = "True" /\ Elapsed > max_wait_seconds
    /\ h.polls >= 2 /\ h.cleanRun = stability_threshold

\* C30: with stability_threshold >= 1, in every step of the call:
\* 0 <= stable_count <= stability_threshold before and after it; the
\* counter is left as it was, grows by one, which only a clean sample
\* does, or is reset to 0; the step in which it reaches
\* stability_threshold is the one that starts the settle sleep, of
\* SettleDelay seconds; the call is ready only at the end of that sleep and
\* then returns True at once, the counter still at the threshold; and
\* True is returned in no other way.
C30_CounterInvariant ==
    [][stability_threshold >= 1 =>
         /\ 0 <= stable_count /\ stable_count <= stability_threshold
         /\ 0 <= stable_count' /\ stable_count' <= stability_threshold
         /\ stable_count' \in {stable_count, stable_count + 1, 0}
         /\ stable_count' = stable_count + 1 =>
               pc = "find_recent" /\ h'.cleanRun = h.cleanRun + 1
         /\ (stable_count # stability_threshold
               /\ stable_count' = stability_threshold) =>
               /\ pc' = "sleeping" /\ resume' = "ready"
               /\ wakeAt' = now + SettleDelay
         /\ stable_count = stability_threshold =>
               /\ stable_count' = stable_count
               /\ \/ pc = "sleeping" /\ resume = "ready"
                     /\ pc' \in {"sleeping", "ready"}
                  \/ pc = "ready" /\ pc' \in {"ready", "returned"}
                  \/ pc = "returned" /\ pc' = pc
         /\ (pc # "ready" /\ pc' = "ready") =>
               pc = "sleeping" /\ now' >= wakeAt
         /\ (result # "True" /\ result' = "True") =>
               /\ pc = "ready" /\ pc' = "returned" /\ now' = now
               /\ stable_count = stability_threshold]_vars

\* C30 witness: the call is ready, at the end of the settle sleep, with
\* the counter at a threshold of 2 that it reached after a reset.
C30_Witness ==
    /\ pc = "ready" /\ stability_threshold = 2
    /\ stable_count = stability_threshold
    /\ h.anyRecent /\ h.polls >= 3

\* C31: with download_dataless=False the materializer is never called and
\* the attempted flag stays false; what the dataless scans find has no
\* part in the result: from the dataless scan the sample goes on, at the
\* same time and with the counter as it was, to the stability check, which
\* counts the sample clean or resets the counter by the recent files
\* alone, as it does for a tree whose files are all resident; and a file
\* that becomes dataless or resident moves nothing of the call.
C31_NoDownloadNoReset ==
    [][~download_dataless =>
         /\ h'.matCalls = 0 /\ ~InMaterializer'
         /\ ~dataless_download_attempted'
         /\ (pc \in {"find_dataless", "remaining"} /\ pc' # pc) =>
               /\ pc' \in {"remaining", "find_recent"}
               /\ now' = now /\ stable_count' = stable_count
               /\ h'.polls = h.polls /\ result' = result
         /\ (pc = "find_recent" /\ pc' # pc) =>
               stable_count' =
                  IF find_recently_modified_files(RecentWindow) = {}
                  THEN stable_count + 1 ELSE 0
         /\ evicted' # evicted =>
               UNCHANGED <<pc, stable_count, result, wakeAt, resume, now>>
                  /\ h'.polls = h.polls]_vars

\* C31 witness: True returned after as many samples as the threshold asks
\* for, each of which found a dataless file and warned about it.
C31_Witness ==
    /\ ~download_dataless /\ Returned /\ result = "True"
    /\ stability_threshold = 2 /\ h.polls = 2
    /\ h.anyDl /\ ~h.anyNoDl /\ h.warned /\ h.matCalls = 0

\* C32 as claimed: after any record_sync_result call, load_sync_status
\* returns the status of the most recent call; before any call, with no
\* status file, it returns None.
C32_Original ==
    loaded.called =>
       IF recorded.called
       THEN loaded.raises = "none" /\ loaded.value = <<recorded.status>>
       ELSE status_file.kind = "absent" =>
               loaded.raises = "none" /\ loaded.value = <<>>

\* C32: load_sync_status returns the status of the most recent
\* record_sync_result call, equal in timestamp, success, result_type,
\* message and commit_hash, when the write of that call went well; it
\* returns None when the write failed after the file was emptied; a call
\* whose write failed before that (mkdir or open raised) leaves the file
\* as it was, and only the failure of mkdir leaves the call as an
\* exception; before any call, with no status file, it returns None.
C32_LastWriteWins ==
    [][/\ loaded'.called =>
            /\ (recorded'.called /\ recorded'.write = "ok") =>
                  /\ loaded'.raises = "none"
                  /\ loaded'.value = <<recorded'.status>>
            /\ (recorded'.called /\ recorded'.write = "dump") =>
                  loaded'.raises = "none" /\ loaded'.value = <<>>
            /\ (~recorded'.called /\ status_file'.kind = "absent") =>
                  loaded'.raises = "none" /\ loaded'.value = <<>>
       /\ (recorded' # recorded /\ recorded'.write \in {"mkdir", "open"}) =>
            status_file' = status_file
       /\ (recorded' # recorded) =>
            (recorded'.raised <=> recorded'.write = "mkdir")]_vars

\* C32 witness: a status with microseconds and without a commit hash is
\* loaded as it was recorded.
C32_Witness ==
    /\ loaded.called /\ recorded.called /\ recorded.write = "ok"
    /\ recorded.status.timestamp.microsecond # 0
    /\ recorded.status.commit_hash = <<>>
    /\ loaded.value = <<recorded.status>>

\* C33: neither record_sync_result, through save_sync_status, nor
\* load_sync_status ever raises, and load_sync_status returns None for
\* every status file that is unreadable or malformed: no UTF-8, no JSON,
\* no object, a key missing, a timestamp that is no ISO date.
C33_Claim ==
    /\ recorded.called => ~recorded.raised
    /\ loaded.called =>
          /\ loaded.raises = "none"
          /\ (status_file.kind # "object" => loaded.value = <<>>)
          /\ (/\ status_file.kind = "object"
              /\ \/ ~({"timestamp", "success", "result_type", "message"}
                        \subseteq status_file.data.keys)
                 \/ status_file.data.timestamp.type # "str"
                 \/ ~status_file.data.timestamp.iso)
             => loaded.value = <<>>

\* C34: on the cron path, when add_sync_schedule(s) returned True, the
\* crontab was read and written without a failure, and
\* get_current_schedule() is called next and reads the crontab, it
\* returns the cron expression of s: the line written is recognised.
C34_Claim ==
    [][(/\ platform = "linux"
        /\ sched.fn = "add_sync_schedule" /\ sched.value
        /\ sched.read = "ok" /\ sched.write = "ok"
        /\ sched'.fn = "get_current_schedule" /\ sched'.read = "ok")
       => sched'.schedule = <<SCHEDULE_PRESETS(sched.arg)>>]_vars

\* C35: on the cron path, after an add_sync_schedule that returned True
\* and read and wrote the crontab without a failure, the crontab holds
\* exactly one line written by add_sync_schedule, and after such a
\* remove_sync_schedule it holds none.
C35_Claim ==
    LET own == {i \in 1..Len(crontab) :
                  /\ Len(crontab[i]) = 13
                  /\ to_cron_line(SubSeq(crontab[i], 1, 5)) = crontab[i]}
    IN  (/\ platform = "linux"
         /\ sched.fn \in {"add_sync_schedule", "remove_sync_schedule"}
         /\ sched.value /\ sched.read = "ok" /\ sched.write = "ok")
        => IF sched.fn = "add_sync_schedule"
           THEN Cardinality(own) = 1
           ELSE own = {}

\* C36: a call of add_sync_schedule or remove_sync_schedule leaves the
\* lines of the crontab that add_sync_schedule did not write present and
\* in their order, also when reading the crontab fails; and it returns
\* True only if crontab exited 0 and installed the new lines.
C36_Claim ==
    [][LET Foreign(lines) ==
              SelectSeq(lines,
                        LAMBDA line :
                           /\ line # <<>>
                           /\ ~(/\ Len(line) = 13
                                /\ to_cron_line(SubSeq(line, 1, 5)) = line))
       IN  (/\ sched' # sched
            /\ sched'.fn \in {"add_sync_schedule", "remove_sync_schedule"}
            /\ platform = "linux")
           => /\ Foreign(crontab') = Foreign(crontab)
              /\ sched'.value =>
                    sched'.read = "none" \/ sched'.write = "ok"]_vars


\* C37: on macOS get_schedule_frequency_name gives back the name of every
\* preset of LAUNCHD_PRESETS from the plist made for it; a call of
\* get_current_schedule that follows an add_sync_schedule(p) that returned
\* True returns p; and add_sync_schedule of a schedule that is no preset
\* returns False and leaves the crontab, the plist and the loaded job as
\* they were.
C37_Claim ==
    [][platform = "darwin" =>
         /\ \A p \in {"15min", "30min", "hourly", "daily", "daily_morning",
                      "daily_evening"} :
               LET made == create_plist_content(LAUNCHD_PRESETS(p)[1]) IN
               get_schedule_frequency_name(
                  [schedule_interval |-> made.StartInterval,
                   calendar_interval |-> made.StartCalendarInterval]) = <<p>>
         /\ (/\ sched.fn = "add_sync_schedule"
             /\ sched.value
             /\ sched'.fn = "get_current_schedule")
            => sched'.schedule = <<sched.arg>>
         /\ (/\ sched'.fn = "add_sync_schedule"
             /\ LAUNCHD_PRESETS(sched'.arg) = <<>>)
            => /\ ~sched'.value
               /\ UNCHANGED <<crontab, plist, agent_loaded>>]_vars

\* A preset was installed on macOS, its job loaded, and
\* get_current_schedule has returned its name.
C37_Witness ==
    /\ platform = "darwin"
    /\ agent_loaded
    /\ plist = create_plist_content(LAUNCHD_PRESETS("daily_evening")[1])
    /\ sched.fn = "get_current_schedule"
    /\ sched.schedule = <<"daily_evening">>


\* C38: on macOS a call of add_sync_schedule for a preset returns True
\* only if the job was loaded; when it returns False and there was no
\* plist before the call, there is none after it; and a call of
\* get_current_schedule that follows an add_sync_schedule that returned
\* False does not return the schedule of that call.
C38_Claim ==
    [][platform = "darwin" =>
         /\ (/\ sched'.fn = "add_sync_schedule"
             /\ sched' # sched
             /\ LAUNCHD_PRESETS(sched'.arg) # <<>>)
            => /\ sched'.value => agent_loaded'
               /\ (~sched'.value /\ plist.kind = "absent")
                  => plist'.kind = "absent"
         /\ (/\ sched.fn = "add_sync_schedule"
             /\ ~sched.value
             /\ sched'.fn = "get_current_schedule")
            => sched'.schedule # <<sched.arg>>]_vars


\* C39: on macOS a call of remove_sync_schedule, which ends in
\* remove_agent, returns True and runs no launchctl command when there is
\* no plist; when it returns True the plist is absent afterwards and
\* get_agent_schedule_info returns None, also right after an
\* add_sync_schedule; and the unlink of the plist comes after the bootout
\* of the job.
C39_Claim ==
    [][(platform = "darwin" /\ sched'.fn = "remove_sync_schedule") =>
         LET commands == sched'.commands IN
         /\ plist.kind = "absent"
            => sched'.value /\ commands = <<>>
         /\ sched'.value
            => plist'.kind = "absent" /\ get_agent_schedule_info' = <<>>
         /\ \A j \in 1..Len(commands) :
               commands[j] = "unlink"
               => \E i \in 1..(j - 1) : commands[i] = "bootout"]_vars

\* A plist was there, remove_sync_schedule has unloaded the job, deleted
\* the plist and returned True.
C39_Witness ==
    /\ platform = "darwin"
    /\ sched.fn = "remove_sync_schedule"
    /\ sched.value
    /\ sched.commands = <<"bootout", "unload", "unlink">>
    /\ plist.kind = "absent"
    /\ ~agent_loaded

====
